---- MODULE Spec2Model ----
(***************************************************************************)
(* Verification model of the realnum (NexSupply) request pipeline:         *)
(*   - the in-memory usage limiter        (web/lib/usage/limit.ts)         *)
(*   - POST /api/analyze-product          (web/app/api/analyze-product)    *)
(*   - POST /api/limit-events             (web/app/api/limit-events)       *)
(*   - the Quick Scan and Copilot clients (product-analyzer.tsx, copilot)  *)
(*   - the category resolver              (web/lib/compliance.ts)          *)
(***************************************************************************)
EXTENDS Integers, Sequences, FiniteSets, TLC

VARIABLES
    usage,      \* limit.ts: const usage = new Map<string, UsageEntry>(), as its set of entries
    env,        \* process.env.NEXSUPPLY_DISABLE_USAGE_LIMITS
    clock,      \* index of the current calendar day (what new Date() reads)
    calls,      \* history: per identifier, the incrementUsage calls made today
    charged,    \* history: per identifier, those of them made with the bypass flag unset
    ret,        \* return value of the last direct limiter call
    req,        \* per caller: the /api/analyze-product request in flight and its handler locals
    usageLog,   \* logs/category-usage.ndjson, as the set of events appended
    limitHitLoggedRef, \* per UI client: limitHitLoggedRef.current
    outbox,     \* the POST /api/limit-events exchanges in progress
    rules,      \* compliance.ts: complianceRulesCache.categories (category_rules.json)
    lookup,     \* the last direct call of a resolver function and its result
    vetting,    \* factoryVetting.ts: factoryVettingCache.categories (category_vetting.json)
    requiredTests, \* testCost.ts line 57: the Set of the last estimateTestingCost call
    costCall,   \* the last direct call of estimateTestingCost and its result
    costFirst,  \* history: the first direct call of estimateTestingCost and its result
    orderCall,  \* the last direct call of estimateInitialOrderCost and its result
    complianceFile, \* web/data/compliance/category_rules.json on disk
    factoryFile,    \* web/data/factory/category_vetting.json on disk
    run,        \* the autoCategory.ts process: position in main() and its locals
    lastMerge,  \* history: the last record written into each file, and by which call
    merger,     \* a direct call of mergeJson in progress: its locals
    queue,      \* generate-category-hints.ts main(): const queue = [...categories]
    worker,     \* per worker(): position, category in hand, attempt number
    failedFile, \* failed.txt, as the number of its lines that hold a given category
    attempts,   \* history: per category, the outcome of every processCategory attempt
    counters,   \* main(): categories.length, successCount, failedCount, processedCount
    pool,       \* reinforceTopCategories.ts processCategoriesWithConcurrency: its locals
    tool,       \* reinforceTopCategories.ts main(): position, locals, log lines, exit code
    popularity  \* generateCategoryPopularity.ts: the log it reads, the ranking it returns

limiterVars == <<usage, env, clock, calls, charged, ret>>
pipelineVars == <<req, usageLog, limitHitLoggedRef, outbox>>
costVars == <<requiredTests, costCall, costFirst, orderCall>>
fileVars == <<complianceFile, factoryFile, lastMerge>>
bulkVars == <<queue, worker, failedFile, attempts, counters>>
reinforceVars == <<pool, tool>>
offlineVars == <<fileVars, run, merger, bulkVars, reinforceVars, popularity>>
storeVars == <<rules, lookup, vetting, costVars, offlineVars>>

vars == <<limiterVars, pipelineVars, storeVars>>

-----------------------------------------------------------------------------
(* Bounds *)

MaxDay == 2          \* calendar days the clock runs through
MaxCount == 6        \* a stored count is not incremented beyond MaxCount + 1
MaxRequests == 3     \* overlapping requests: limiter calls per identifier
MaxBypassed == 1     \* limiter calls per identifier and day made under the bypass flag

-----------------------------------------------------------------------------
(* Values *)

Absent == "<absent>"             \* an undefined / missing field or header
NoSession == "<no session>"      \* getServerSession() returned null

Emails == {"a@x.com"}
Sessions == {NoSession} \cup Emails
ForwardedFor == {"10.0.0.1"}     \* x-forwarded-for header values
UserAgents == {Absent}           \* user-agent header values

EnvValues == {Absent, "true", "1"}
BypassValues == {Absent, "true"}

\* Calendar days read by new Date(): year, month (1-based), day of month.
Calendar == <<[y |-> 2023, m |-> 12, d |-> 30], [y |-> 2023, m |-> 12, d |-> 31],
              [y |-> 2024, m |-> 1, d |-> 1], [y |-> 2024, m |-> 1, d |-> 2]>>

Inputs == {"", "baby teether"}

ExceptionMessages == {"", "connect ECONNREFUSED 127.0.0.1:5432"}
GenericMessages == {"Something went wrong while analyzing the product.", "Something went wrong"}

-----------------------------------------------------------------------------
(* limit.ts *)

ANONYMOUS_LIMIT == 1
AUTHENTICATED_LIMIT == 5

\* parseInt(`${year}${month.padStart(2,'0')}${day.padStart(2,'0')}`, 10)
getCurrentDateAsNumber(now) == now.y * 10000 + now.m * 100 + now.d

Today == getCurrentDateAsNumber(Calendar[clock])

getLimit(isAuthenticated) ==
    IF isAuthenticated THEN AUTHENTICATED_LIMIT ELSE ANONYMOUS_LIMIT

\* Map.prototype.has / get / set on the entry set
MapHas(m, k) == \E e \in m : e.id = k
MapGet(m, k) == CHOOSE e \in m : e.id = k

\* Mutant: set adds the entry without replacing the one stored under the key.
MapSet_KeepsOld(m, k, v) ==
    m \cup {[id |-> k, count |-> v.count, date |-> v.date]}

MapSet(m, k, v) ==
    {e \in m : e.id # k} \cup {[id |-> k, count |-> v.count, date |-> v.date]}

\* getUsage(identifier, isAuthenticated): reads, never writes
getUsage(m, today, identifier, isAuthenticated) ==
    LET limit == getLimit(isAuthenticated) IN
    IF ~MapHas(m, identifier) \/ MapGet(m, identifier).date # today
    THEN [count |-> 0, limit |-> limit]
    ELSE [count |-> MapGet(m, identifier).count, limit |-> limit]

\* Mutant: the counter stops at the limit instead of counting on.
incrementUsage_StopsAtLimit(m, envValue, today, identifier, isAuthenticated) ==
    LET limit == getLimit(isAuthenticated) IN
    IF envValue = "true"
    THEN [usage |-> m, count |-> 0, limit |-> limit]
    ELSE IF ~MapHas(m, identifier) \/ MapGet(m, identifier).date # today
         THEN [usage |-> MapSet(m, identifier, [count |-> 1, date |-> today]),
               count |-> 1, limit |-> limit]
         ELSE LET entry == MapGet(m, identifier)
                  next == IF entry.count > limit THEN entry.count ELSE entry.count + 1
              IN [usage |-> MapSet(m, identifier, [count |-> next, date |-> entry.date]),
                  count |-> next, limit |-> limit]

\* Mutant: the bypass is tested after the entry has been written.
incrementUsage_BypassAfterWrite(m, envValue, today, identifier, isAuthenticated) ==
    LET limit == getLimit(isAuthenticated)
        count == IF ~MapHas(m, identifier) \/ MapGet(m, identifier).date # today
                 THEN 1 ELSE MapGet(m, identifier).count + 1
    IN [usage |-> MapSet(m, identifier, [count |-> count, date |-> today]),
        count |-> IF envValue = "true" THEN 0 ELSE count,
        limit |-> limit]

\* incrementUsage(identifier, isAuthenticated): the map after the call and the result
incrementUsage(m, envValue, today, identifier, isAuthenticated) ==
    LET limit == getLimit(isAuthenticated) IN
    IF envValue = "true"
    THEN [usage |-> m, count |-> 0, limit |-> limit]
    ELSE IF ~MapHas(m, identifier) \/ MapGet(m, identifier).date # today
         THEN [usage |-> MapSet(m, identifier, [count |-> 1, date |-> today]),
               count |-> 1, limit |-> limit]
         ELSE LET entry == MapGet(m, identifier) IN
              [usage |-> MapSet(m, identifier,
                                [count |-> entry.count + 1, date |-> entry.date]),
               count |-> entry.count + 1, limit |-> limit]

-----------------------------------------------------------------------------
(* Strings are sequences of one-character strings; the String methods used *)

UpperCase == <<"A","B","C","D","E","F","G","H","I","J","K","L","M",
               "N","O","P","Q","R","S","T","U","V","W","X","Y","Z">>
LowerCase == <<"a","b","c","d","e","f","g","h","i","j","k","l","m",
               "n","o","p","q","r","s","t","u","v","w","x","y","z">>
Digits == {"0","1","2","3","4","5","6","7","8","9"}
WhiteSpace == {" "}

LowerChar(ch) ==
    IF \E j \in 1..26 : UpperCase[j] = ch
    THEN LowerCase[CHOOSE j \in 1..26 : UpperCase[j] = ch]
    ELSE ch

\* String.prototype.toLowerCase
toLowerCase(s) == [i \in 1..Len(s) |-> LowerChar(s[i])]

\* String.prototype.startsWith
startsWith(s, p) == Len(p) <= Len(s) /\ SubSeq(s, 1, Len(p)) = p

\* String.prototype.includes
includes(s, t) == \E i \in 0..(Len(s) - Len(t)) : SubSeq(s, i + 1, i + Len(t)) = t

\* s.replace(/[^0-9.]/g, '')
IsDigitOrDot(ch) == ch \in Digits \cup {"."}
StripNonNumeric(s) == SelectSeq(s, IsDigitOrDot)

\* s.split(/\s+/): the pieces between maximal runs of white space
RECURSIVE split(_)
split(s) ==
    IF \A i \in 1..Len(s) : s[i] \notin WhiteSpace
    THEN <<s>>
    ELSE LET i == CHOOSE k \in 1..Len(s) :
                      s[k] \in WhiteSpace /\ \A h \in 1..(k - 1) : s[h] \notin WhiteSpace
             rest == SubSeq(s, i, Len(s))
             j == IF \A k \in 1..Len(rest) : rest[k] \in WhiteSpace
                  THEN Len(rest) + 1
                  ELSE CHOOSE k \in 1..Len(rest) :
                           rest[k] \notin WhiteSpace
                           /\ \A h \in 1..(k - 1) : rest[h] \in WhiteSpace
         IN <<SubSeq(s, 1, i - 1)>> \o split(SubSeq(rest, j, Len(rest)))

\* Array.prototype.join(' ')
RECURSIVE join(_)
join(a) ==
    IF Len(a) = 0 THEN <<>>
    ELSE IF Len(a) = 1 THEN a[1]
    ELSE a[1] \o <<" ">> \o join(Tail(a))

Range(f) == {f[i] : i \in DOMAIN f}

-----------------------------------------------------------------------------
(* compliance.ts: the category resolver *)

\* "undefined": no rule found
NoRule == [id |-> Absent, label |-> <<>>, exampleProducts |-> <<>>, targetMarkets |-> <<>>,
           typicalHtsCodes |-> <<>>, requiredRegulations |-> <<>>]

\* Mutant: the overlap is tested in one direction only.
marketMatches_OneWay(category, market) ==
    LET marketNormalized == toLowerCase(market) IN
    \E i \in 1..Len(category.targetMarkets) :
        includes(toLowerCase(category.targetMarkets[i]), marketNormalized)

\* lines 103-106 / 142-145 / 187-190: targetMarkets.some(...)
marketMatches(category, market) ==
    LET marketNormalized == toLowerCase(market) IN
    \E i \in 1..Len(category.targetMarkets) :
        \/ includes(toLowerCase(category.targetMarkets[i]), marketNormalized)
        \/ includes(marketNormalized, toLowerCase(category.targetMarkets[i]))

\* The market argument is optional: the empty string stands for undefined and '',
\* which `market && ...` treats alike.
marketAccepts(category, market) ==
    IF market # <<>> /\ Len(category.targetMarkets) > 0
    THEN marketMatches(category, market)
    ELSE TRUE

\* lines 132-136: category.typicalHtsCodes.some(...)
htsMatches(category, normalizedHtsCode) ==
    \E i \in 1..Len(category.typicalHtsCodes) :
        LET normalizedCategoryCode == StripNonNumeric(category.typicalHtsCodes[i]) IN
        \/ startsWith(normalizedHtsCode, normalizedCategoryCode)
        \/ startsWith(normalizedCategoryCode, normalizedHtsCode)

\* Mutant: tokens of two characters are searched for as well.
nameMatches_ShortTokens(category, searchTerms) ==
    LET labelLower == toLowerCase(category.label)
        examplesLower == toLowerCase(join(category.exampleProducts))
        allText == labelLower \o <<" ">> \o examplesLower
    IN \E i \in 1..Len(searchTerms) :
           includes(allText, searchTerms[i]) /\ Len(searchTerms[i]) > 1

\* lines 175-181: searchTerms.some(...)
nameMatches(category, searchTerms) ==
    LET labelLower == toLowerCase(category.label)
        examplesLower == toLowerCase(join(category.exampleProducts))
        allText == labelLower \o <<" ">> \o examplesLower
    IN \E i \in 1..Len(searchTerms) :
           includes(allText, searchTerms[i]) /\ Len(searchTerms[i]) > 2

\* The for loop of getComplianceByHtsCode from position i on
RECURSIVE HtsLoop(_, _, _, _)
HtsLoop(categories, i, normalizedHtsCode, market) ==
    IF i > Len(categories) THEN NoRule
    ELSE IF htsMatches(categories[i], normalizedHtsCode)
              /\ marketAccepts(categories[i], market)
         THEN categories[i]
         ELSE HtsLoop(categories, i + 1, normalizedHtsCode, market)

getComplianceByHtsCode(categories, htsCode, market) ==
    HtsLoop(categories, 1, StripNonNumeric(htsCode), market)

\* The for loop of getComplianceByProductName from position i on
RECURSIVE NameLoop(_, _, _, _)
NameLoop(categories, i, searchTerms, market) ==
    IF i > Len(categories) THEN NoRule
    ELSE IF nameMatches(categories[i], searchTerms)
              /\ marketAccepts(categories[i], market)
         THEN categories[i]
         ELSE NameLoop(categories, i + 1, searchTerms, market)

getComplianceByProductName(categories, productName, market) ==
    NameLoop(categories, 1, split(toLowerCase(productName)), market)

\* rules.categories.find(cat => cat.id === categoryId), then the market check
getComplianceByCategory(categories, categoryId, market) ==
    IF ~\E i \in 1..Len(categories) : categories[i].id = categoryId
    THEN NoRule
    ELSE LET rule == categories[CHOOSE i \in 1..Len(categories) :
                                    /\ categories[i].id = categoryId
                                    /\ \A h \in 1..(i - 1) : categories[h].id # categoryId]
         IN IF marketAccepts(rule, market) THEN rule ELSE NoRule

-----------------------------------------------------------------------------
(* regulation/testCost.ts *)

\* lines 9-42: testingCostTable, by key
testingCostTable(testName) ==
    CASE testName = "CPSIA Lead Content" ->
             [test |-> "CPSIA Lead Content", low |-> 150, high |-> 250]
      [] testName = "CPSIA Phthalates" ->
             [test |-> "CPSIA Phthalates", low |-> 300, high |-> 450]
      [] testName = "CPSIA Tracking Label" ->
             [test |-> "CPSIA Tracking Label Review", low |-> 100, high |-> 200]
      [] testName = "ASTM F963 Mechanical" ->
             [test |-> "ASTM F963 Mechanical Hazards", low |-> 180, high |-> 320]
      [] testName = "ASTM F963 Flammability" ->
             [test |-> "ASTM F963 Flammability", low |-> 120, high |-> 200]
      [] testName = "ASTM F963 Heavy Metals" ->
             [test |-> "ASTM F963 Heavy Metals", low |-> 250, high |-> 400]
      [] testName = "FDA 21 CFR Food Grade" ->
             [test |-> "FDA 21 CFR Food-Grade Material Testing", low |-> 400, high |-> 700]

\* lines 44-52: regulationToTestMap, its keys in insertion order (Object.keys)
regulationKeys == <<<<"c", "p", "s", "i", "a">>, <<"a", "s", "t", "m", "-", "f", "9", "6", "3">>, <<"f", "d", "a", "-", "2", "1", "-", "c", "f", "r">>>>

regulationToTestMap(key) ==
    CASE key = <<"c", "p", "s", "i", "a">> ->
             <<"CPSIA Lead Content", "CPSIA Phthalates", "CPSIA Tracking Label">>
      [] key = <<"a", "s", "t", "m", "-", "f", "9", "6", "3">> ->
             <<"ASTM F963 Mechanical", "ASTM F963 Flammability", "ASTM F963 Heavy Metals">>
      [] key = <<"f", "d", "a", "-", "2", "1", "-", "c", "f", "r">> ->
             <<"FDA 21 CFR Food Grade">>

\* Mutant: the tests are collected in a list, not in a Set.
SetAdd_Push(set, value) == Append(set, value)

\* Set.prototype.add: a Set keeps its values once, in insertion order
SetAdd(set, value) ==
    IF \E i \in 1..Len(set) : set[i] = value THEN set ELSE Append(set, value)

\* lines 67-69: for (const test of tests) requiredTests.add(test)
RECURSIVE AddTests(_, _, _)
AddTests(collected, tests, i) ==
    IF i > Len(tests) THEN collected
    ELSE AddTests(SetAdd(collected, tests[i]), tests, i + 1)

\* lines 62-72: for (const key of regulationKeys)
RECURSIVE KeyLoop(_, _, _)
KeyLoop(collected, lowerCaseReg, j) ==
    IF j > Len(regulationKeys) THEN collected
    ELSE KeyLoop(IF includes(lowerCaseReg, regulationKeys[j])
                 THEN AddTests(collected, regulationToTestMap(regulationKeys[j]), 1)
                 ELSE collected,
                 lowerCaseReg, j + 1)

\* lines 60-73: for (const reg of complianceRule.requiredRegulations)
RECURSIVE RegLoop(_, _, _)
RegLoop(collected, requiredRegulations, i) ==
    IF i > Len(requiredRegulations) THEN collected
    ELSE RegLoop(KeyLoop(collected, toLowerCase(requiredRegulations[i]), 1),
                 requiredRegulations, i + 1)

\* Mutant: the Set is shared by the calls instead of being made anew.
NewSet_Shared(previous) == previous

\* line 57: const requiredTests = new Set<string>(), whatever an earlier call left
NewSet(previous) == <<>>

\* lines 75-83: the costs of the tests collected, in the Set's order
CostEstimate(tests) == [i \in 1..Len(tests) |-> testingCostTable(tests[i])]

\* lines 54-84
estimateTestingCost(complianceRule) ==
    CostEstimate(RegLoop(NewSet(<<>>), complianceRule.requiredRegulations, 1))

-----------------------------------------------------------------------------
(* orderCost.ts.  A number is NaN or the decimal num / 10^scale; the rounding *)
(* of binary floating point is not modelled.                                  *)

NaN == [nan |-> TRUE, num |-> 0, scale |-> 0]
Dec(num, scale) == [nan |-> FALSE, num |-> num, scale |-> scale]

RECURSIVE Pow10(_)
Pow10(n) == IF n = 0 THEN 1 ELSE 10 * Pow10(n - 1)

DigitChars == <<"0", "1", "2", "3", "4", "5", "6", "7", "8", "9">>
DigitValue(ch) == (CHOOSE i \in 1..10 : DigitChars[i] = ch) - 1

\* The value of a run of decimal digits
RECURSIVE DigitsValue(_)
DigitsValue(s) ==
    IF Len(s) = 0 THEN 0
    ELSE 10 * DigitsValue(SubSeq(s, 1, Len(s) - 1)) + DigitValue(s[Len(s)])

\* The longest run of decimal digits s starts with
LeadingDigits(s) ==
    LET n == IF \A i \in 1..Len(s) : s[i] \in Digits THEN Len(s)
             ELSE (CHOOSE i \in 1..Len(s) :
                       s[i] \notin Digits /\ \A h \in 1..(i - 1) : s[h] \in Digits) - 1
    IN SubSeq(s, 1, n)

\* parseFloat: the longest prefix that is a decimal literal ([-]digits[.digits])
parseFloat(s) ==
    LET negative == Len(s) > 0 /\ s[1] = "-"
        body == IF negative THEN Tail(s) ELSE s
        whole == LeadingDigits(body)
        rest == SubSeq(body, Len(whole) + 1, Len(body))
        fraction == IF Len(rest) > 0 /\ rest[1] = "." THEN LeadingDigits(Tail(rest)) ELSE <<>>
        magnitude == DigitsValue(whole) * Pow10(Len(fraction)) + DigitsValue(fraction)
    IN IF Len(whole) = 0 /\ Len(fraction) = 0 THEN NaN
       ELSE Dec(IF negative THEN 0 - magnitude ELSE magnitude, Len(fraction))

\* value.replace(/[^0-9.-]+/g, '')
IsNumeric(ch) == ch \in Digits \cup {".", "-"}

\* lines 4-6
parseCurrency(value) == parseFloat(SelectSeq(value, IsNumeric))

\* the optional testing_cost_estimate field: absent, or the list
NoEstimate == <<>>
Estimate(list) == <<list>>

\* lines 28-32: reduce((sum, item) => sum + item.high, 0)
RECURSIVE SumHigh(_)
SumHigh(items) == IF Len(items) = 0 THEN 0 ELSE SumHigh(SubSeq(items, 1, Len(items) - 1)) + items[Len(items)].high

\* Mutant: the low bounds are summed.
TestingCostTotal_Low(testing_cost_estimate) ==
    IF testing_cost_estimate = NoEstimate THEN 0
    ELSE LET items == testing_cost_estimate[1]
             low == [i \in 1..Len(items) |-> [high |-> items[i].low]]
         IN SumHigh(low)

TestingCostTotal(testing_cost_estimate) ==
    IF testing_cost_estimate = NoEstimate THEN 0 ELSE SumHigh(testing_cost_estimate[1])

Times(x, n) == IF x.nan THEN NaN ELSE Dec(x.num * n, x.scale)
Plus(x, n) == IF x.nan THEN NaN ELSE Dec(x.num + n * Pow10(x.scale), x.scale)

\* lines 24-54
estimateInitialOrderCost(testing_cost_estimate, landed_cost) ==
    LET testingCostTotal == TestingCostTotal(testing_cost_estimate)
        unitCost == parseCurrency(landed_cost)
        moq == 500
        minimumOrderCost == Times(unitCost, moq)
        totalInitialCost == Plus(minimumOrderCost, testingCostTotal)
    IN [testingCostTotal |-> testingCostTotal, unitCost |-> unitCost, moq |-> moq,
        minimumOrderCost |-> minimumOrderCost, totalInitialCost |-> totalInitialCost]

-----------------------------------------------------------------------------
(* Callers *)

UIClients == {"quickscan", "copilot"}    \* product-analyzer.tsx, copilot page
DirectCallers == {"api", "batch"}        \* callers speaking HTTP directly
Callers == UIClients \cup DirectCallers

\* route.ts lines 18-25: the limiter key of a request
Header(h) == IF h = Absent THEN "unknown" ELSE h
IdentifierOf(session, ip, userAgent) ==
    IF session # NoSession THEN session
    ELSE Header(ip) \o "-" \o Header(userAgent)

Identifiers ==
    {IdentifierOf(s, ip, ua) : s \in Sessions, ip \in ForwardedFor, ua \in UserAgents}

\* Results of the external analyzeProduct(input, image) call
Analyses ==
    {[product_name |-> <<"B", "a", "b", "y", " ", "T", "e", "e", "t", "h", "e", "r">>, hts_code |-> <<"3", "9", "2", "4", ".", "9", "0", ".", "1", "0", "5", "0">>,
      landed_cost |-> <<"$", "2", ".", "9", "1">>],
     [product_name |-> <<"m", "u", "g">>, hts_code |-> <<"6", "9", "1", "2", ".", "0", "0">>,
      landed_cost |-> <<"$", "1", ".", "3", "8">>]}

\* An optional field of the response: absent, or its value
None == <<>>
Some(value) == <<value>>

NoAnalysis == [product_name |-> <<>>, hts_code |-> <<>>, compliance_hints |-> Absent,
               factory_vetting_hints |-> Absent, regulation_reasoning |-> None,
               testing_cost_estimate |-> NoEstimate, initial_order_cost |-> None]

NoResp == [status |-> 0, ok |-> FALSE, error |-> Absent, reason |-> Absent,
           message |-> Absent, warning |-> Absent, analysis |-> NoAnalysis]

\* pc: the handler's position; count, limit: its locals; usedBefore, loggedBefore:
\* history, the caller's count and the size of the usage log when the request was sent;
\* appendFailed: history, the usage event of the request could not be appended
Idle == [pc |-> "idle", session |-> NoSession, input |-> "",
         count |-> 0, limit |-> 0, resp |-> NoResp,
         usedBefore |-> 0, loggedBefore |-> 0, appendFailed |-> FALSE]

\* No HTTP exchange is in progress.
Quiet == (\A c \in Callers : req[c].pc = "idle") /\ outbox = <<>>

CountOf(m, k) == IF MapHas(m, k) THEN MapGet(m, k).count ELSE 0

\* category_rules.json as deployed with the request pipeline
DeployedRules ==
    <<[id |-> "baby_teether", label |-> <<"B", "a", "b", "y", " ", "T", "e", "e", "t", "h", "e", "r">>,
       exampleProducts |-> <<<<"t", "e", "e", "t", "h", "e", "r">>>>, targetMarkets |-> <<<<"U", "S">>>>,
       typicalHtsCodes |-> <<<<"3", "9", "2", "4", ".", "9", "0">>>>, requiredRegulations |-> <<<<"C", "P", "S", "I", "A">>>>],
      [id |-> "steel_tumbler", label |-> <<"T", "u", "m", "b", "l", "e", "r">>,
       exampleProducts |-> <<<<"c", "u", "p">>>>, targetMarkets |-> <<<<"U", "S">>>>,
       typicalHtsCodes |-> <<<<"7", "3", "2", "3", ".", "9", "3">>>>, requiredRegulations |-> <<<<"F", "D", "A", " ", "2", "1", " ", "C", "F", "R">>>>]>>

\* category_vetting.json as deployed with the request pipeline
DeployedVetting == <<[id |-> "baby_teether"], [id |-> "steel_tumbler"]>>

NoVetting == [id |-> Absent]

\* Mutant: the first vetting record is returned, whatever its id.
getFactoryVettingByCategory_First(categories, categoryId) ==
    IF Len(categories) > 0 THEN categories[1] ELSE NoVetting

\* data.categories.find(cat => cat.id === categoryId)
getFactoryVettingByCategory(categories, categoryId) ==
    IF \E i \in 1..Len(categories) : categories[i].id = categoryId
    THEN categories[CHOOSE i \in 1..Len(categories) :
                        /\ categories[i].id = categoryId
                        /\ \A h \in 1..(i - 1) : categories[h].id # categoryId]
    ELSE NoVetting

\* generateRegulationReasoning: the regulations of its fixed (mock) answer
generateRegulationReasoning(productName, htsCode, complianceRule) ==
    <<"CPSIA", "ASTM F963", "FDA 21 CFR">>

NoOrderCall == [n |-> 0, testing_cost_estimate |-> NoEstimate, landed_cost |-> <<>>,
                result |-> estimateInitialOrderCost(NoEstimate, <<>>)]

NoCostCall == [n |-> 0, mixed |-> FALSE, requiredRegulations |-> <<>>, tests |-> <<>>]

NoLookup == [fn |-> "none", query |-> <<>>, id |-> Absent, market |-> <<>>, result |-> NoRule]

-----------------------------------------------------------------------------
(* The limiter called directly (as limit.test.ts does) and its environment *)

\* The calendar day rolls over.
Tick ==
    /\ clock < MaxDay
    /\ clock' = clock + 1
    /\ calls' = [k \in Identifiers |-> 0]
    /\ charged' = [k \in Identifiers |-> 0]
    /\ UNCHANGED <<usage, env, ret, pipelineVars, storeVars>>

\* process.env.NEXSUPPLY_DISABLE_USAGE_LIMITS is set, changed or deleted.
SetEnv(v) ==
    /\ v # env
    /\ env' = v
    /\ UNCHANGED <<usage, clock, calls, charged, ret, pipelineVars, storeVars>>

NoteCall(k) ==
    /\ calls[k] <= MaxCount
    /\ env = "true" => calls[k] - charged[k] < MaxBypassed
    /\ calls' = [calls EXCEPT ![k] = @ + 1]
    /\ charged' = IF env = "true" THEN charged ELSE [charged EXCEPT ![k] = @ + 1]

IncrementUsageCall(k, isAuthenticated) ==
    LET r == incrementUsage(usage, env, Today, k, isAuthenticated) IN
    /\ CountOf(usage, k) <= MaxCount
    /\ usage' = r.usage
    /\ ret' = [op |-> "incrementUsage", id |-> k, count |-> r.count, limit |-> r.limit]
    /\ NoteCall(k)
    /\ UNCHANGED <<env, clock, pipelineVars, storeVars>>

\* Mutant: reading the usage of an identifier counts as a use.
GetUsageCall_Consumes(k, isAuthenticated) ==
    LET r == incrementUsage(usage, Absent, Today, k, isAuthenticated) IN
    /\ CountOf(usage, k) <= MaxCount
    /\ usage' = r.usage
    /\ ret' = [op |-> "getUsage", id |-> k, count |-> r.count, limit |-> r.limit]
    /\ UNCHANGED <<env, clock, calls, charged, pipelineVars, storeVars>>

GetUsageCall(k, isAuthenticated) ==
    LET r == getUsage(usage, Today, k, isAuthenticated) IN
    /\ ret' = [op |-> "getUsage", id |-> k, count |-> r.count, limit |-> r.limit]
    /\ UNCHANGED <<usage, env, clock, calls, charged, pipelineVars, storeVars>>

-----------------------------------------------------------------------------
(* POST /api/analyze-product (route.ts), one action per await-delimited step *)

Resp429(isAuthenticated) ==
    [NoResp EXCEPT
        !.status = 429, !.ok = FALSE, !.error = "quota_exceeded",
        !.reason = IF isAuthenticated THEN "user_daily_limit" ELSE "anonymous_daily_limit",
        !.message = IF isAuthenticated
                    THEN "You have reached today's free analysis limit for your account."
                    ELSE "You have exceeded the number of free analyses for today."]

Resp400 == [NoResp EXCEPT !.status = 400, !.ok = FALSE, !.error = "Input is required."]

Resp500(errorMessage) ==
    [NoResp EXCEPT
        !.status = 500, !.ok = FALSE,
        !.error = IF errorMessage # "" THEN errorMessage
                  ELSE "Something went wrong while analyzing the product."]

\* Mutant: the gate closes when the limit is reached, not when it is passed.
OverLimit_AtLimit(count, limit) == count >= limit

\* line 28: if (count > limit)
OverLimit(count, limit) == count > limit

\* lines 80-93: HTS lookup first, product-name lookup as fallback
ResolveCategory(categories, analysis) ==
    LET byHts == getComplianceByHtsCode(categories, analysis.hts_code, <<>>) IN
    IF byHts # NoRule THEN byHts
    ELSE getComplianceByProductName(categories, analysis.product_name, <<>>)

\* Mutant: the testing-cost estimate is made whether or not a category matched.
AnalysisWithHints_AlwaysEstimates(analysis, complianceHints, vettingCategories) ==
    LET factoryVettingHints ==
            IF complianceHints # NoRule
            THEN getFactoryVettingByCategory(vettingCategories, complianceHints.id)
            ELSE NoVetting
        testingCostEstimate == Estimate(estimateTestingCost(complianceHints))
    IN [product_name |-> analysis.product_name,
        hts_code |-> analysis.hts_code,
        compliance_hints |-> complianceHints.id,
        factory_vetting_hints |-> factoryVettingHints.id,
        regulation_reasoning |->
            IF complianceHints # NoRule
            THEN Some(generateRegulationReasoning(analysis.product_name, analysis.hts_code,
                                                  complianceHints))
            ELSE None,
        testing_cost_estimate |-> testingCostEstimate,
        initial_order_cost |->
            Some(estimateInitialOrderCost(testingCostEstimate, analysis.landed_cost))]

\* lines 94-123: the enrichments and the analysis object of the response
AnalysisWithHints(analysis, complianceHints, vettingCategories) ==
    LET factoryVettingHints ==
            IF complianceHints # NoRule
            THEN getFactoryVettingByCategory(vettingCategories, complianceHints.id)
            ELSE NoVetting
        regulationReasoning ==
            IF complianceHints # NoRule
            THEN Some(generateRegulationReasoning(analysis.product_name, analysis.hts_code,
                                                  complianceHints))
            ELSE None
        testingCostEstimate ==
            IF complianceHints # NoRule
            THEN Estimate(estimateTestingCost(complianceHints))
            ELSE NoEstimate
    IN [product_name |-> analysis.product_name,
        hts_code |-> analysis.hts_code,
        compliance_hints |-> complianceHints.id,
        factory_vetting_hints |-> factoryVettingHints.id,
        regulation_reasoning |-> regulationReasoning,
        testing_cost_estimate |-> testingCostEstimate,
        initial_order_cost |->
            Some(estimateInitialOrderCost(testingCostEstimate, analysis.landed_cost))]

Resp200(analysis, complianceHints, vettingCategories) ==
    [NoResp EXCEPT
        !.status = 200, !.ok = TRUE,
        !.analysis = AnalysisWithHints(analysis, complianceHints, vettingCategories)]

\* A caller sends a request (fetch('/api/analyze-product', ...)).  The UI
\* handlers return early on an empty input; the Copilot handler also clears
\* its limitHitLoggedRef.
Arrive(c, session, input) ==
    /\ req[c].pc = "idle"
    /\ c \in UIClients => input # ""
    /\ \E ip \in ForwardedFor, userAgent \in UserAgents :
        req' = [req EXCEPT ![c] =
                  [Idle EXCEPT !.pc = "sent", !.session = session, !.input = input,
                               !.usedBefore =
                                   getUsage(usage, Today,
                                            IdentifierOf(session, ip, userAgent),
                                            session # NoSession).count,
                               !.loggedBefore = Cardinality(usageLog)]]
    /\ limitHitLoggedRef' = IF c = "copilot"
                            THEN [limitHitLoggedRef EXCEPT ![c] = FALSE]
                            ELSE limitHitLoggedRef
    /\ UNCHANGED <<limiterVars, usageLog, outbox, storeVars>>

\* A caller sends a request while no other exchange is in progress.
Submit(c, session, input) == Quiet /\ Arrive(c, session, input)

\* Mutant: the handler reads the count before the await of getServerSession and writes
\* it after, so that the calls of two requests overlap.
Gate_ReadBeforeAwait(c) ==
    /\ req[c].pc = "sent"
    /\ \E ip \in ForwardedFor, userAgent \in UserAgents :
        LET isAuthenticated == req[c].session # NoSession
            identifier == IdentifierOf(req[c].session, ip, userAgent)
            count == req[c].usedBefore + 1
            limit == getLimit(isAuthenticated)
        IN /\ CountOf(usage, identifier) <= MaxCount
           /\ usage' = MapSet(usage, identifier, [count |-> count, date |-> Today])
           /\ NoteCall(identifier)
           /\ req' = [req EXCEPT ![c] =
                        [@ EXCEPT !.count = count, !.limit = limit,
                                  !.pc = IF OverLimit(count, limit)
                                         THEN "done" ELSE "gated",
                                  !.resp = IF OverLimit(count, limit)
                                           THEN Resp429(isAuthenticated) ELSE NoResp]]
    /\ UNCHANGED <<env, clock, ret, usageLog, limitHitLoggedRef, outbox, storeVars>>

\* lines 15-43: session, identifier, incrementUsage, the quota gate
Gate(c) ==
    /\ req[c].pc = "sent"
    /\ \E ip \in ForwardedFor, userAgent \in UserAgents :
        LET isAuthenticated == req[c].session # NoSession
            identifier == IdentifierOf(req[c].session, ip, userAgent)
            r == incrementUsage(usage, env, Today, identifier, isAuthenticated)
        IN /\ CountOf(usage, identifier) <= MaxCount
           /\ usage' = r.usage
           /\ NoteCall(identifier)
           /\ req' = [req EXCEPT ![c] =
                        [@ EXCEPT !.count = r.count, !.limit = r.limit,
                                  !.pc = IF OverLimit(r.count, r.limit)
                                         THEN "done" ELSE "gated",
                                  !.resp = IF OverLimit(r.count, r.limit)
                                           THEN Resp429(isAuthenticated) ELSE NoResp]]
    /\ UNCHANGED <<env, clock, ret, usageLog, limitHitLoggedRef, outbox, storeVars>>

\* lines 45-74: the body is read; an empty input is answered 400
ParseBody(c) ==
    /\ req[c].pc = "gated"
    /\ req' = [req EXCEPT ![c] =
                 IF req[c].input = ""
                 THEN [@ EXCEPT !.pc = "done", !.resp = Resp400]
                 ELSE [@ EXCEPT !.pc = "parsed"]]
    /\ UNCHANGED <<limiterVars, usageLog, limitHitLoggedRef, outbox, storeVars>>

\* line 78 throws, lines 138-148 catch
AnalyzeThrows(c, errorMessage) ==
    /\ req[c].pc = "parsed"
    /\ req' = [req EXCEPT ![c] = [@ EXCEPT !.pc = "done", !.resp = Resp500(errorMessage)]]
    /\ UNCHANGED <<limiterVars, usageLog, limitHitLoggedRef, outbox, storeVars>>

\* categoryUsage.ts lines 83-96: the log file after logCategoryUsage(event); access,
\* mkdir or appendFile may fail, and the catch block logs the error and returns
logCategoryUsage(log, event, appendOk) == IF appendOk THEN log \cup {event} ELSE log

\* Mutant: the handler awaits logCategoryUsage, which rethrows, so that a failed append
\* reaches the handler's catch block.
FireAndForget_Awaited(resp, appendOk) ==
    IF appendOk THEN resp
    ELSE Resp500("EACCES: permission denied, open 'logs/category-usage.ndjson'")

\* lines 126-137: logCategoryUsage(usageEvent).catch(...) is not awaited; the response
\* is the one built before the call, however the promise settles
FireAndForget(resp, appendOk) == resp

\* lines 78-137: analysis, category hints, usage event (appendFile may fail,
\* logCategoryUsage swallows the failure), the 200 response
AnalyzeReturns(c, analysis, appendOk) ==
    /\ req[c].pc = "parsed"
    /\ LET complianceHints == ResolveCategory(rules, analysis) IN
        /\ req' = [req EXCEPT ![c] =
                     [@ EXCEPT !.pc = "done",
                                !.appendFailed = ~appendOk,
                                !.resp = FireAndForget(
                                    Resp200(analysis, complianceHints, vetting), appendOk)]]
        /\ usageLog' = logCategoryUsage(usageLog,
                                        [raw_input |-> req[c].input,
                                         product_name |-> analysis.product_name,
                                         hts_code |-> analysis.hts_code,
                                         category_id |-> complianceHints.id],
                                        appendOk)
    /\ UNCHANGED <<limiterVars, limitHitLoggedRef, outbox, storeVars>>

-----------------------------------------------------------------------------
(* The clients' handling of the response: handleAnalyze (product-analyzer.tsx *)
(* lines 86-118) and handleSubmit (copilot page lines 103-197)               *)

NoLimitResp == [status |-> 0, ok |-> FALSE, error |-> Absent, message |-> Absent,
                warning |-> Absent]

\* The fetch('/api/limit-events', ...) of a limit_hit event
LimitHit(c, r) ==
    [pc |-> "sent",
     action |-> "limit_hit",
     reason |-> IF c = "copilot" /\ r.resp.reason = Absent THEN "unknown" ELSE r.resp.reason,
     userType |-> IF r.session # NoSession THEN "user" ELSE "anonymous",
     input |-> r.input,
     session |-> r.session,
     store |-> Absent,
     resp |-> NoLimitResp]

QuotaExceeded(r) == ~r.resp.ok /\ r.resp.error = "quota_exceeded"

Receive(c) ==
    /\ req[c].pc = "done"
    /\ req' = [req EXCEPT ![c] = Idle]
    /\ IF c \in UIClients /\ QuotaExceeded(req[c]) /\ ~limitHitLoggedRef[c]
       THEN /\ limitHitLoggedRef' = [limitHitLoggedRef EXCEPT ![c] = TRUE]
            /\ outbox' = Append(outbox, LimitHit(c, req[c]))
       ELSE /\ limitHitLoggedRef' =
                  IF c = "quickscan" /\ req[c].resp.ok
                  THEN [limitHitLoggedRef EXCEPT ![c] = FALSE]
                  ELSE limitHitLoggedRef
            /\ outbox' = outbox
    /\ UNCHANGED <<limiterVars, usageLog, storeVars>>

-----------------------------------------------------------------------------
(* POST /api/limit-events *)

\* Bodies a caller speaking HTTP directly may post
DirectPayloads ==
    {[action |-> "cta_primary_click", reason |-> "anonymous_daily_limit",
      userType |-> "anonymous", input |-> "", session |-> NoSession],
     [action |-> Absent, reason |-> "anonymous_daily_limit",
      userType |-> "anonymous", input |-> "", session |-> NoSession],
     [action |-> "purchase", reason |-> "user_daily_limit",
      userType |-> "user", input |-> "", session |-> "a@x.com"],
     [action |-> "cta_secondary_click", reason |-> "user_daily_limit",
      userType |-> "admin", input |-> "", session |-> "a@x.com"]}

validActions == {"limit_hit", "cta_primary_click", "cta_secondary_click"}

LimitResp(status, ok, error, message, warning) ==
    [status |-> status, ok |-> ok, error |-> error, message |-> message,
     warning |-> warning]

Falsy(v) == v = Absent \/ v = ""

\* lines 15-38: the three validations, in order
PayloadError(body) ==
    IF Falsy(body.action) \/ Falsy(body.reason) \/ Falsy(body.userType)
    THEN "Missing required fields: action, reason, userType"
    ELSE IF body.action \notin validActions
    THEN "Invalid action. Must be one of: limit_hit, cta_primary_click, cta_secondary_click"
    ELSE IF body.userType # "anonymous" /\ body.userType # "user"
    THEN "userType must be 'anonymous' or 'user'"
    ELSE Absent

Pending == Len(outbox) > 0 /\ outbox[1].pc = "sent"

\* store: history, what became of the LimitEvent store access of lines 52-73
Answered(resp, store) ==
    /\ outbox' = <<[outbox[1] EXCEPT !.pc = "answered", !.resp = resp, !.store = store]>>
                  \o Tail(outbox)
    /\ UNCHANGED <<limiterVars, req, usageLog, limitHitLoggedRef, storeVars>>

Answer(resp) == Answered(resp, Absent)

PostLimitEvent(body) ==
    /\ Quiet
    /\ outbox' = <<[pc |-> "sent", action |-> body.action, reason |-> body.reason,
                    userType |-> body.userType, input |-> body.input,
                    session |-> body.session, store |-> Absent, resp |-> NoLimitResp]>>
    /\ UNCHANGED <<limiterVars, req, usageLog, limitHitLoggedRef, storeVars>>

\* getServerSession() or req.json() rejects: lines 76-86
LimitEventsThrows(errorMessage) ==
    /\ Pending
    /\ Answer(LimitResp(500, FALSE, "server_error",
                        IF errorMessage # "" THEN errorMessage
                        ELSE "Something went wrong", Absent))

\* lines 15-38
LimitEventsInvalid ==
    /\ Pending
    /\ PayloadError(outbox[1]) # Absent
    /\ Answer(LimitResp(400, FALSE, "invalid_payload", PayloadError(outbox[1]), Absent))

\* lines 52-56: the prisma client is not available
LimitEventsNoPrisma ==
    /\ Pending
    /\ PayloadError(outbox[1]) = Absent
    /\ Answered(LimitResp(200, TRUE, Absent, Absent,
                          "Database unavailable, event not logged"), "unavailable")

\* lines 58-73: prisma.limitEvent.create rejects
LimitEventsDbError ==
    /\ Pending
    /\ PayloadError(outbox[1]) = Absent
    /\ Answered(LimitResp(200, TRUE, Absent, Absent, "Event logged with warnings"),
                "create throws")

\* lines 40-75: the row is created in the external LimitEvent store
LimitEventsCreate ==
    /\ Pending
    /\ PayloadError(outbox[1]) = Absent
    /\ Answered(LimitResp(200, TRUE, Absent, Absent, Absent), "created")

\* The sender's fetch settles; the response is not looked at.
Settle ==
    /\ Len(outbox) > 0
    /\ outbox[1].pc = "answered"
    /\ outbox' = Tail(outbox)
    /\ UNCHANGED <<limiterVars, req, usageLog, limitHitLoggedRef, storeVars>>

-----------------------------------------------------------------------------
(* Offline knowledge builder: autoCategory.ts (one category per process)   *)

\* slugify, line 93: .replace(/\(.*?\)/g, '') removes, left to right, each "(" up to
\* the nearest ")" after it; a "(" with no ")" after it stays
RECURSIVE RemoveParenthesized(_)
RemoveParenthesized(s) ==
    IF s = <<>> THEN <<>>
    ELSE IF Head(s) = "(" /\ \E j \in 2..Len(s) : s[j] = ")"
         THEN LET j == CHOOSE k \in 2..Len(s) : s[k] = ")" /\ \A m \in 2..(k - 1) : s[m] # ")"
              IN  RemoveParenthesized(SubSeq(s, j + 1, Len(s)))
         ELSE <<Head(s)>> \o RemoveParenthesized(Tail(s))

\* String.prototype.trim
RECURSIVE trim(_)
trim(s) ==
    IF s = <<>> THEN <<>>
    ELSE IF Head(s) \in WhiteSpace THEN trim(Tail(s))
    ELSE IF s[Len(s)] \in WhiteSpace THEN trim(SubSeq(s, 1, Len(s) - 1))
    ELSE s

\* .replace(/X+/g, '_') for a character class X: every maximal run becomes one "_"
RECURSIVE RunsToUnderscore(_, _)
RunsToUnderscore(s, class) ==
    IF s = <<>> THEN <<>>
    ELSE IF Head(s) \in class
         THEN IF Len(s) > 1 /\ s[2] \in class
              THEN RunsToUnderscore(Tail(s), class)
              ELSE <<"_">> \o RunsToUnderscore(Tail(s), class)
         ELSE <<Head(s)>> \o RunsToUnderscore(Tail(s), class)

\* \w of a JavaScript regular expression without the u flag, and "-"
WordChars == Range(UpperCase) \cup Range(LowerCase) \cup Digits \cup {"_"}
IsWordOrHyphen(ch) == ch \in WordChars \cup {"-"}

\* .replace(/^_|_$/g, '')
StripEnds(s) ==
    LET a == IF s # <<>> /\ Head(s) = "_" THEN Tail(s) ELSE s
    IN  IF a # <<>> /\ a[Len(a)] = "_" THEN SubSeq(a, 1, Len(a) - 1) ELSE a

slugify(text) ==
    StripEnds(RunsToUnderscore(SelectSeq(RunsToUnderscore(
        trim(RemoveParenthesized(toLowerCase(text))), WhiteSpace),
        IsWordOrHyphen), {"_"}))

\* A Knowledge Store file: missing, not parseable as JSON, or a document with categories[]
Missing == [state |-> "absent", categories |-> <<>>]
Corrupt == [state |-> "invalid", categories |-> <<>>]
Json(categories) == [state |-> "json", categories |-> categories]

\* A category record: its id and, standing for every field taken from the model's
\* output (label, regulations, certificates, ...), the revision of that output
Revisions == {"r1", "r2"}
Record(id, revision) == [id |-> id, revision |-> revision]
NoRecord == [id |-> <<>>, revision |-> Absent]

\* Array.prototype.findIndex(c => c.id === id), 1-based; 0 stands for -1
findIndex(categories, id) ==
    IF \E i \in 1..Len(categories) : categories[i].id = id
    THEN CHOOSE i \in 1..Len(categories) :
            categories[i].id = id /\ \A j \in 1..(i - 1) : categories[j].id # id
    ELSE 0

\* mutant of Upsert: always appends
Upsert_AlwaysPush(categories, record) == Append(categories, record)

\* lines 349-356 (and 370-377, and generate-category-hints.ts 658-663):
\* replace the record at findIndex, or push
Upsert(categories, record) ==
    LET index == findIndex(categories, record.id)
    IN  IF index > 0 THEN [categories EXCEPT ![index] = record]
        ELSE Append(categories, record)

\* String.prototype.localeCompare on slugs: characters in collation order
\* (punctuation, digits, letters), a proper prefix first
Collation == <<"_", "-">> \o DigitChars \o LowerCase
CollationRank(ch) == CHOOSE i \in 1..Len(Collation) : Collation[i] = ch

RECURSIVE localeCompare(_, _)
localeCompare(a, b) ==
    IF a = <<>> /\ b = <<>> THEN 0
    ELSE IF a = <<>> THEN -1
    ELSE IF b = <<>> THEN 1
    ELSE IF Head(a) = Head(b) THEN localeCompare(Tail(a), Tail(b))
    ELSE IF CollationRank(Head(a)) < CollationRank(Head(b)) THEN -1 ELSE 1

\* Array.prototype.sort((a, b) => a.id.localeCompare(b.id)): stable
RECURSIVE InsertById(_, _)
InsertById(sorted, record) ==
    IF sorted = <<>> THEN <<record>>
    ELSE IF localeCompare(sorted[Len(sorted)].id, record.id) <= 0 THEN Append(sorted, record)
    ELSE Append(InsertById(SubSeq(sorted, 1, Len(sorted) - 1), record), sorted[Len(sorted)])

RECURSIVE SortById(_)
SortById(categories) ==
    IF categories = <<>> THEN <<>>
    ELSE InsertById(SortById(SubSeq(categories, 1, Len(categories) - 1)),
                    categories[Len(categories)])

\* ensureFileExists, lines 318-334: a missing file is created from the sample with
\* categories: []
ensureFileExists(file) == IF file.state = "absent" THEN Json(<<>>) ELSE file

\* The outcome of one model call followed by JSON.parse of its text
CallOutcomes == {"ok", "throws"}
\* verifyWithGemini's text may also parse into an object without a compliance or a
\* factory section, which buildComplianceJson / buildFactoryJson then dereference
VerifyOutcomes == CallOutcomes \cup {"no section"}

Files == {"compliance", "factory"}

NoRun == [pc |-> "idle", n |-> 0, inputText |-> <<>>, category_id |-> <<>>,
          compliance |-> NoRecord, factory |-> NoRecord,
          complianceData |-> <<>>, factoryData |-> <<>>,
          stages |-> <<>>, created |-> {}, wrote |-> {}, atStart |-> <<Missing, Missing>>,
          rejected |-> Absent, threwIn |-> Absent, committed |-> FALSE, exit |-> -1]

NoMerge == [record |-> NoRecord, by |-> Absent, repeated |-> FALSE]

\* history: record has been merged by the function named; repeated tells whether the
\* merge before it, into the same file, was of the same record by the same function
Merged(last, record, by) ==
    [record |-> record, by |-> by, repeated |-> last.record = record /\ last.by = by]
NoMerger == [pc |-> "idle", n |-> 0, file |-> Absent, newData |-> NoRecord, data |-> <<>>]

MaxRuns == 2         \* autoCategory.ts processes and direct mergeJson calls, one after the other

onlineVars == <<limiterVars, pipelineVars, rules, lookup, vetting, costVars>>
\* what neither the builder nor the bulk builder touches
elsewhere == <<onlineVars, reinforceVars, popularity>>

\* main, lines 522-529: the catch block logs and calls process.exit(1)
Exit(r, code, stage) == [r EXCEPT !.pc = "exited", !.exit = code, !.threwIn = stage]

\* mutant of Await: a rejected promise is swallowed and the caller goes on
Await_Swallows(r, outcome, stage, continuation) == continuation

\* an awaited call inside main's try block: a rejection reaches the catch block
Await(r, outcome, stage, continuation) ==
    IF outcome = "throws" THEN Exit(r, 1, stage) ELSE continuation

Enter(r, pc, stages) == [r EXCEPT !.pc = pc, !.stages = r.stages \o stages]

\* history: the model call of this stage failed, or its text did not parse
Noted(r, outcome, stage) == IF outcome = "throws" THEN [r EXCEPT !.rejected = stage] ELSE r

\* main, lines 479-497, to the first await of parseInput (line 128)
Start(inputText) ==
    /\ run.pc \in {"idle", "exited"} /\ merger.pc = "idle"
    /\ run.n + merger.n < MaxRuns
    /\ run' = IF inputText = <<>>
              THEN [NoRun EXCEPT !.n = run.n + 1, !.pc = "exited", !.exit = 1,
                                 !.atStart = <<complianceFile, factoryFile>>]
              ELSE [NoRun EXCEPT !.n = run.n + 1, !.pc = "parseInput",
                                 !.inputText = inputText,
                                 !.category_id = slugify(inputText),
                                 !.stages = <<"parse-input">>,
                                 !.atStart = <<complianceFile, factoryFile>>]
    /\ UNCHANGED <<elsewhere, fileVars, merger, bulkVars>>

\* parseInput resumes (lines 128-139); generateCategoryKnowledge calls researchWithGemini
ParseInputReturns(outcome) ==
    /\ run.pc = "parseInput"
    /\ run' = Noted(Await(run, outcome, "parse-input", Enter(run, "research", <<"research">>)),
                     outcome, "parse-input")
    /\ UNCHANGED <<elsewhere, fileVars, merger, bulkVars>>

\* researchWithGemini resumes (lines 218-219); verifyWithGemini is called
ResearchReturns(outcome) ==
    /\ run.pc = "research"
    /\ run' = Noted(Await(run, outcome, "research", Enter(run, "verify", <<"verify">>)),
                     outcome, "research")
    /\ UNCHANGED <<elsewhere, fileVars, merger, bulkVars>>

\* verifyWithGemini resumes (lines 279-280); buildComplianceJson and buildFactoryJson
\* run (lines 468-469); main calls mergeIntoFiles, up to its first await (line 341)
VerifyReturns(outcome, revision) ==
    /\ run.pc = "verify"
    /\ run' = Noted(Await(run, outcome, "verify",
                IF outcome = "no section"
                THEN Exit(Enter(run, "build", <<"build-records">>), 1, "build-records")
                ELSE [Enter(run, "ensureCompliance", <<"build-records", "merge">>)
                        EXCEPT !.compliance = Record(run.category_id, revision),
                               !.factory = Record(run.category_id, revision)]),
                     outcome, "verify")
    /\ UNCHANGED <<elsewhere, fileVars, merger, bulkVars>>

\* mergeIntoFiles, line 341
EnsureCompliance ==
    /\ run.pc = "ensureCompliance"
    /\ complianceFile' = ensureFileExists(complianceFile)
    /\ run' = [run EXCEPT !.pc = "ensureFactory",
                 !.created = IF complianceFile.state = "absent"
                             THEN run.created \cup {"compliance"} ELSE run.created]
    /\ UNCHANGED <<elsewhere, factoryFile, lastMerge, merger, bulkVars>>

\* mergeIntoFiles, line 342
EnsureFactory ==
    /\ run.pc = "ensureFactory"
    /\ factoryFile' = ensureFileExists(factoryFile)
    /\ run' = [run EXCEPT !.pc = "readCompliance",
                 !.created = IF factoryFile.state = "absent"
                             THEN run.created \cup {"factory"} ELSE run.created]
    /\ UNCHANGED <<elsewhere, complianceFile, lastMerge, merger, bulkVars>>

\* mergeIntoFiles, lines 345-356: read, JSON.parse, replace or push
ReadCompliance ==
    /\ run.pc = "readCompliance"
    /\ run' = Await(run, IF complianceFile.state = "json" THEN "ok" ELSE "throws", "merge",
                [run EXCEPT !.pc = "writeCompliance",
                    !.complianceData = Upsert(complianceFile.categories, run.compliance)])
    /\ UNCHANGED <<elsewhere, fileVars, merger, bulkVars>>

\* mergeIntoFiles, lines 359-363
WriteCompliance ==
    /\ run.pc = "writeCompliance"
    /\ complianceFile' = Json(run.complianceData)
    /\ lastMerge' = [lastMerge EXCEPT !["compliance"] =
                        Merged(@, run.compliance, "mergeIntoFiles")]
    /\ run' = [run EXCEPT !.pc = "readFactory", !.wrote = run.wrote \cup {"compliance"}]
    /\ UNCHANGED <<elsewhere, factoryFile, merger, bulkVars>>

\* mergeIntoFiles, lines 366-377
ReadFactory ==
    /\ run.pc = "readFactory"
    /\ run' = Await(run, IF factoryFile.state = "json" THEN "ok" ELSE "throws", "merge",
                [run EXCEPT !.pc = "writeFactory",
                    !.factoryData = Upsert(factoryFile.categories, run.factory)])
    /\ UNCHANGED <<elsewhere, fileVars, merger, bulkVars>>

\* mergeIntoFiles, lines 380-391; main goes on to call parseInput again (line 507)
WriteFactory ==
    /\ run.pc = "writeFactory"
    /\ factoryFile' = Json(run.factoryData)
    /\ lastMerge' = [lastMerge EXCEPT !["factory"] =
                        Merged(@, run.factory, "mergeIntoFiles")]
    /\ run' = [Enter(run, "reparse", <<"parse-input">>)
                 EXCEPT !.wrote = run.wrote \cup {"factory"}]
    /\ UNCHANGED <<elsewhere, complianceFile, merger, bulkVars>>

\* the second parseInput resumes; printSummary and runGitAutomation run (lines 510-513);
\* runGitAutomation catches a failing git command (lines 446-449); main returns
ReparseReturns(outcome, gitOk) ==
    /\ run.pc = "reparse"
    /\ run' = Noted(Await(run, outcome, "parse-input",
                [Exit(Enter(run, "commit", <<"commit">>), 0, Absent)
                    EXCEPT !.committed = gitOk]),
                     outcome, "parse-input")
    /\ UNCHANGED <<elsewhere, fileVars, merger, bulkVars>>

-----------------------------------------------------------------------------
(* Bulk builder: the last script of generate-category-hints.ts              *)

COMMIT_BATCH_SIZE == 5
MAX_RETRIES == 3
CONCURRENCY == 3

Workers == 1..CONCURRENCY

\* mergeJson called directly, lines 650-663 and 665: a file that cannot be read or
\* parsed counts as { categories: [] }; replace or push; sort by id
MergeJsonRead(file, newData) ==
    /\ merger.pc = "idle" /\ run.pc \in {"idle", "exited"}
    /\ run.n + merger.n < MaxRuns
    /\ LET onDisk == IF file = "compliance" THEN complianceFile ELSE factoryFile
           data == IF onDisk.state = "json" THEN onDisk.categories ELSE <<>>
       IN  merger' = [pc |-> "write", n |-> merger.n + 1, file |-> file,
                      newData |-> newData, data |-> SortById(Upsert(data, newData))]
    /\ UNCHANGED <<elsewhere, fileVars, run, bulkVars>>

\* mergeJson, line 666
MergeJsonWrite ==
    /\ merger.pc = "write"
    /\ IF merger.file = "compliance"
       THEN complianceFile' = Json(merger.data) /\ UNCHANGED factoryFile
       ELSE factoryFile' = Json(merger.data) /\ UNCHANGED complianceFile
    /\ lastMerge' = [lastMerge EXCEPT ![merger.file] =
                        Merged(@, merger.newData, "mergeJson")]
    /\ merger' = [NoMerger EXCEPT !.n = merger.n]
    /\ UNCHANGED <<elsewhere, run, bulkVars>>

\* What a child autoCategory.ts process hands back to execAsync: its exit code and,
\* if stdout + stderr hold a "{" with a "}" after it, the value that stretch of text
\* denotes as JSON
ChildFailed == [exit |-> 1, payload |-> None]
ChildPrinted(payload) == [exit |-> 0, payload |-> payload]

\* line 691: output.match(/({.*})/s) is null or the array [match, group 1]
Match(output) == IF output.payload = None THEN <<>> ELSE <<output.payload[1], output.payload[1]>>

\* ToString of an array is its elements joined by ","; a text is the sequence of the
\* JSON values and separators written in it
RECURSIVE ArrayToString(_)
ArrayToString(array) ==
    IF Len(array) = 0 THEN <<>>
    ELSE IF Len(array) = 1 THEN <<array[1]>>
    ELSE <<array[1], ",">> \o ArrayToString(Tail(array))

\* JSON.parse: exactly one value, nothing after it
JsonParses(text) == Len(text) = 1

\* line 696: JSON.parse(jsonOutputMatch) converts the match array to a string first
ParsedOutput(jsonOutputMatch) == ArrayToString(jsonOutputMatch)

\* processCategory, lines 686-701: does the try block run to "return true"?
TryBlockCompletes(output) ==
    /\ output.exit = 0
    /\ Match(output) # <<>>
    /\ JsonParses(ParsedOutput(Match(output)))

NoAttempts == [made |-> 0, generated |-> FALSE]
IdleWorker == [pc |-> "loop", category |-> <<>>, attempt |-> 0]
NoCounters == [categories |-> 0, successCount |-> 0, failedCount |-> 0, processedCount |-> 0,
               commits |-> 0, gitFailures |-> 0, main |-> "running"]

\* getCategories, lines 635-639: the lines of the file, trimmed, without empty lines
\* and comments
CategoriesTxt == <<<<"T", "e", "a", " ", "C", "u", "p">>, <<"(", "U", "S", ")">>, <<"M", "u", "g">>, <<"a", "-", "b">>, <<"C", "a", "p">>, <<"P", "e", "n">>>>

\* Category descriptions given to autoCategory.ts on its command line
Descriptions ==
    {<<"T", "e", "a", " ", "C", "u", "p">>, <<"M", "u", "g", " ", "(", "U", "S", ")", "!">>, <<"(", "U", "S", ")">>}

\* Mutant: the worker reads the head of the queue without removing it.
Take_Peek(w) ==
    /\ counters.main = "running"
    /\ worker[w].pc = "sleep" /\ queue # <<>>
    /\ worker' = [worker EXCEPT ![w] = [pc |-> "exec", category |-> Head(queue), attempt |-> 1]]
    /\ UNCHANGED <<elsewhere, fileVars, run, merger, queue, failedFile, attempts, counters>>

\* worker, lines 730-735, resumed after the sleep of line 746: take the next category
\* and call processCategory(category), which runs to the await of execAsync (line 687)
Take(w) ==
    /\ counters.main = "running"
    /\ worker[w].pc = "sleep" /\ queue # <<>>
    /\ worker' = [worker EXCEPT ![w] = [pc |-> "exec", category |-> Head(queue), attempt |-> 1]]
    /\ queue' = Tail(queue)
    /\ UNCHANGED <<elsewhere, fileVars, run, merger, failedFile, attempts, counters>>

\* worker, line 730: the queue is empty, the worker's promise resolves
Leave(w) ==
    /\ counters.main = "running"
    /\ worker[w].pc = "sleep" /\ queue = <<>>
    /\ worker' = [worker EXCEPT ![w].pc = "done"]
    /\ UNCHANGED <<elsewhere, fileVars, run, merger, queue, failedFile, attempts, counters>>

\* The files as a child that exits 0 leaves them: mergeIntoFiles of its record
ChildMerged(file, record) == Json(Upsert(ensureFileExists(file).categories, record))

\* The files as mergeJson leaves them
MergedJson(file, newData) ==
    Json(SortById(Upsert(IF file.state = "json" THEN file.categories ELSE <<>>, newData)))

\* parseInput in the child: the category_id of each line of categories.txt
CategoryIdOf == [category \in Range(CategoriesTxt) |-> slugify(category)]

\* processCategory, lines 687-711: the child process has ended. The try block either
\* completes (both mergeJson calls, return true; worker lines 736-742) or throws, and
\* then the catch block retries (line 706) or goes on to append to failed.txt
ChildExits(w, output, revision) ==
    /\ worker[w].pc = "exec"
    /\ output.exit = 0 => complianceFile.state # "invalid" /\ factoryFile.state # "invalid"
    /\ LET category == worker[w].category
           record == Record(CategoryIdOf[category], revision)
           afterChild == IF output.exit = 0
                         THEN <<ChildMerged(complianceFile, record), ChildMerged(factoryFile, record)>>
                         ELSE <<complianceFile, factoryFile>>
       IN  /\ attempts' = [attempts EXCEPT ![category] =
                            [made |-> @.made + 1, generated |-> @.generated \/ output.exit = 0]]
           /\ IF TryBlockCompletes(output)
              THEN LET parsed == ParsedOutput(Match(output))[1]
                       successCount == counters.successCount + 1
                   IN  /\ complianceFile' = MergedJson(afterChild[1], parsed.compliance)
                       /\ factoryFile' = MergedJson(afterChild[2], parsed.factory)
                       /\ lastMerge' = [f \in Files |->
                            Merged(NoMerge, IF f = "compliance" THEN parsed.compliance
                                            ELSE parsed.factory, "mergeJson")]
                       /\ worker' = [worker EXCEPT ![w] = [IdleWorker EXCEPT !.pc = "sleep"]]
                       /\ counters' = [counters EXCEPT
                            !.successCount = successCount,
                            !.processedCount = @ + 1,
                            !.commits = IF successCount % COMMIT_BATCH_SIZE = 0 THEN @ + 1 ELSE @]
              ELSE /\ complianceFile' = afterChild[1]
                   /\ factoryFile' = afterChild[2]
                   /\ lastMerge' = IF output.exit = 0
                                   THEN [f \in Files |-> Merged(lastMerge[f], record, "mergeIntoFiles")]
                                   ELSE lastMerge
                   /\ worker' = [worker EXCEPT ![w] =
                                    IF worker[w].attempt < MAX_RETRIES
                                    THEN [@ EXCEPT !.attempt = @ + 1]
                                    ELSE [@ EXCEPT !.pc = "append"]]
                   /\ UNCHANGED counters
    /\ UNCHANGED <<elsewhere, run, merger, queue, failedFile>>

\* processCategory, lines 708-709, and worker, lines 736 and 744
AppendFailed(w) ==
    /\ worker[w].pc = "append"
    /\ failedFile' = [failedFile EXCEPT ![worker[w].category] = @ + 1]
    /\ worker' = [worker EXCEPT ![w] = [IdleWorker EXCEPT !.pc = "sleep"]]
    /\ counters' = [counters EXCEPT !.failedCount = @ + 1, !.processedCount = @ + 1]
    /\ UNCHANGED <<elsewhere, fileVars, run, merger, queue, attempts>>

\* main, lines 751-760: every worker has returned; the final commit
Finish(gitOk) ==
    /\ counters.main = "running"
    /\ \A w \in Workers : worker[w].pc = "done"
    /\ counters' = [counters EXCEPT !.commits = @ + 1,
                                    !.gitFailures = IF gitOk THEN @ ELSE @ + 1,
                                    !.main = "finished"]
    /\ UNCHANGED <<elsewhere, fileVars, run, merger, queue, worker, failedFile, attempts>>

-----------------------------------------------------------------------------
(* Top-N reinforcement: reinforceTopCategories.ts                            *)

\* String.prototype.replace(/_/g, ' ')
UnderscoresToSpaces(s) == [i \in 1..Len(s) |-> IF s[i] = "_" THEN " " ELSE s[i]]

\* buildSeedString, lines 85-89: `${item.label || spaced id} (${item.category_id})`
buildSeedString(item) ==
    LET name == IF item.label # <<>> THEN item.label
                ELSE UnderscoresToSpaces(item.category_id)
    IN  name \o <<" ", "(">> \o item.category_id \o <<")">>

\* category_popularity.json, items in rank order (category_id, label)
Item(category_id, label) == [category_id |-> category_id, label |-> label]
PopularityItems ==
    <<Item(<<"m", "u", "g">>, <<"M", "u", "g">>), Item(<<"c", "u", "p">>, <<"T", "e", "a", " ", "C", "u", "p">>),
      Item(<<"a", "_", "b">>, <<>>), Item(<<"p", "e", "n">>, <<"P", "e", "n">>)>>

\* a ReinforcementResult, lines 117-143: error is set when success is false
Result(item, success) ==
    [category_id |-> item.category_id, label |-> item.label, success |-> success,
     error |-> IF success THEN Absent ELSE "Command failed"]

\* main, lines 281-285 and 296: the arguments it passes
PoolConcurrency == 2
DelayBetweenCalls == 500
RetryMax == 2
RetryDelayMs == 1000

NoPool == [queue |-> <<>>, activePromises |-> <<>>, results |-> <<>>]

\* pc; the arrays of main; the locals of retryFailedCategories (failedResults, the index
\* of the result in hand, attempts, lastError); the lines appended to the log that tell
\* of a retry, with the wait before it; the exit code
NoTool == [pc |-> "idle", topCategories |-> <<>>, results |-> <<>>,
           successful |-> <<>>, failed |-> <<>>,
           failedResults |-> <<>>, retryResults |-> <<>>, index |-> 0, attempts |-> 0,
           lastError |-> Absent, log |-> <<>>, exit |-> -1]

ReinforceAtRest == pool = NoPool /\ tool = NoTool

Without(seq, i) == SubSeq(seq, 1, i - 1) \o SubSeq(seq, i + 1, Len(seq))

\* mutant of Room: one promise more than the limit may be active
Room_OneMore(activePromises, concurrency) == Len(activePromises) <= concurrency

\* line 161: activePromises.length < concurrency
Room(activePromises, concurrency) == Len(activePromises) < concurrency

\* the largest number of items the loop of lines 161-174 starts
RECURSIVE Started(_, _)
Started(waiting, activePromises) ==
    IF waiting # <<>> /\ Room(activePromises, PoolConcurrency)
    THEN Started(Tail(waiting), Append(activePromises, Head(waiting)))
    ELSE activePromises

\* processCategoriesWithConcurrency, lines 159-174: start promises up to the limit; each
\* reinforceCategory call runs to its first await (the delay of line 100)
Fill ==
    /\ tool.pc = "pool"
    /\ pool.queue # <<>> /\ Room(pool.activePromises, PoolConcurrency)
    /\ LET active == Started(pool.queue, pool.activePromises)
           n == Len(active) - Len(pool.activePromises)
       IN  pool' = [pool EXCEPT !.activePromises = active,
                                !.queue = SubSeq(pool.queue, n + 1, Len(pool.queue))]
    /\ UNCHANGED <<onlineVars, popularity, fileVars, run, merger, bulkVars, tool>>

\* The Knowledge Store files after the child autoCategory.ts process of reinforceCategory
\* (line 110) has ended: a child that exits 0 has merged the record of its seed
Reinforces(item, success, revision) ==
    LET record == Record(slugify(buildSeedString(item)), revision)
    IN  IF success
        THEN /\ complianceFile.state # "invalid" /\ factoryFile.state # "invalid"
             /\ complianceFile' = ChildMerged(complianceFile, record)
             /\ factoryFile' = ChildMerged(factoryFile, record)
             /\ lastMerge' = [f \in Files |-> Merged(lastMerge[f], record, "mergeIntoFiles")]
        ELSE UNCHANGED fileVars

\* reinforceCategory, lines 94-145, has returned for an active promise, and its then
\* callback runs (lines 164-170): push the result, remove the promise
Reinforced(i, success, revision) ==
    /\ tool.pc = "pool"
    /\ i \in 1..Len(pool.activePromises)
    /\ Reinforces(pool.activePromises[i], success, revision)
    /\ pool' = [pool EXCEPT !.results = Append(@, Result(pool.activePromises[i], success)),
                            !.activePromises = Without(@, i)]
    /\ UNCHANGED <<onlineVars, popularity, run, merger, bulkVars, tool>>

Successes(results) == SelectSeq(results, LAMBDA r : r.success)
Failures(results) == SelectSeq(results, LAMBDA r : ~r.success)

\* retryFailedCategories, lines 198-203: the locals for the result at index, or the
\* return when there is none
NextFailed(t, index) ==
    IF index <= Len(t.failedResults)
    THEN [t EXCEPT !.index = index, !.attempts = 0,
                   !.lastError = t.failedResults[index].error]
    ELSE [t EXCEPT !.pc = "summary", !.index = 0]

\* processCategoriesWithConcurrency returns (lines 159, 183-185); main separates the
\* results (lines 288-296)
PoolReturns ==
    /\ tool.pc = "pool"
    /\ pool.queue = <<>> /\ pool.activePromises = <<>>
    /\ LET failed == Failures(pool.results)
           t == [tool EXCEPT !.results = pool.results,
                             !.successful = Successes(pool.results),
                             !.failed = failed]
       IN  tool' = IF Len(failed) > 0
                   THEN NextFailed([t EXCEPT !.pc = "retry", !.failedResults = failed], 1)
                   ELSE [t EXCEPT !.pc = "summary"]
    /\ UNCHANGED <<onlineVars, popularity, fileVars, run, merger, bulkVars, pool>>

\* retryFailedCategories, lines 204-233: one pass of the while loop for the result in
\* hand and, when the loop ends, the lines after it
Retry(success, revision) ==
    /\ tool.pc = "retry"
    /\ LET result == tool.failedResults[tool.index]
           item == Item(result.category_id, result.label)
           made == tool.attempts + 1
           retryResult == Result(item, success)
           lastError == IF success THEN tool.lastError ELSE retryResult.error
           ends == success \/ ~(made < RetryMax)
           lines == <<[line |-> "Retry attempt", category_id |-> result.category_id,
                       waited |-> RetryDelayMs * made]>>
                    \o (IF success
                        THEN <<[line |-> "Retry succeeded", category_id |-> result.category_id,
                                waited |-> 0]>>
                        ELSE <<>>)
                    \o (IF ends /\ made >= RetryMax /\ lastError # Absent
                        THEN <<[line |-> "All retries failed",
                                category_id |-> result.category_id, waited |-> 0]>>
                        ELSE <<>>)
           t == [tool EXCEPT !.attempts = made, !.lastError = lastError,
                             !.retryResults = Append(@, retryResult),
                             !.log = @ \o lines]
       IN  /\ Reinforces(item, success, revision)
           /\ tool' = IF ends THEN NextFailed(t, tool.index + 1) ELSE t
    /\ UNCHANGED <<onlineVars, popularity, run, merger, bulkVars, pool>>

\* main, lines 297-332: the totals after the retries, and the exit code
Summarise ==
    /\ tool.pc = "summary"
    /\ LET retried == Len(tool.failed) > 0
           successful == IF retried THEN tool.successful \o Successes(tool.retryResults)
                         ELSE tool.successful
           failed == IF retried THEN Failures(tool.retryResults) ELSE tool.failed
       IN  tool' = [tool EXCEPT !.pc = "exited", !.successful = successful,
                                !.failed = failed,
                                !.exit = IF Len(failed) > 0 THEN 1 ELSE 0]
    /\ UNCHANGED <<onlineVars, popularity, fileVars, run, merger, bulkVars, pool>>

-----------------------------------------------------------------------------
(* Popularity job: generateCategoryPopularity.ts                             *)

\* A line of logs/category-usage.ndjson: whether JSON.parse accepts it and, if so, the
\* fields of the event the job reads (<<>> for a category_id that is missing or empty)
Line(json, timestamp, raw_input, category_id) ==
    [json |-> json, timestamp |-> timestamp, raw_input |-> raw_input,
     category_id |-> category_id]

\* timestamps are toISOString texts that differ in the day of the month only, written
\* here as the two digits of the day
Timestamps == {<<"0", "1">>, <<"0", "2">>, <<"1", "0">>}

LogLines ==
    {Line(TRUE, t, "baby teether", id) : t \in Timestamps, id \in {<<"m", "u", "g">>, <<"c", "u", "p">>}}
    \cup {Line(TRUE, <<"0", "2">>, "mug", <<>>),         \* no category matched the request
          Line(TRUE, <<"1", "0">>, "", <<"m", "u", "g">>),        \* an event without raw_input
          Line(FALSE, <<>>, "", <<>>)}              \* a truncated line

\* readUsageLogs, lines 66-81: the lines that parse and hold a timestamp and a raw_input
readUsageLogs(lines) ==
    SelectSeq(lines, LAMBDA l : l.json /\ l.timestamp # <<>> /\ l.raw_input # "")

\* the < of two strings: by code unit, a proper prefix first
RECURSIVE StringLess(_, _)
StringLess(a, b) ==
    IF b = <<>> THEN FALSE
    ELSE IF a = <<>> THEN TRUE
    ELSE IF Head(a) = Head(b) THEN StringLess(Tail(a), Tail(b))
    ELSE (CHOOSE i \in 1..Len(DigitChars) : DigitChars[i] = Head(a))
            < (CHOOSE i \in 1..Len(DigitChars) : DigitChars[i] = Head(b))

\* mutant of Seen: the last timestamp read is kept as lastSeen
Seen_LastRead(agg, timestamp) == [agg EXCEPT !.count = @ + 1, !.lastSeen = timestamp]

\* aggregateByCategory, lines 133-141: count the event and widen the interval
Seen(agg, timestamp) ==
    [agg EXCEPT !.count = @ + 1,
                !.firstSeen = IF StringLess(timestamp, @) THEN timestamp ELSE @,
                !.lastSeen = IF StringLess(@, timestamp) THEN timestamp ELSE @]

\* aggregateByCategory, lines 105-159: the Map's entries in insertion order
RECURSIVE aggregateByCategory(_)
aggregateByCategory(events) ==
    IF events = <<>> THEN <<>>
    ELSE LET aggregates == aggregateByCategory(SubSeq(events, 1, Len(events) - 1))
             event == events[Len(events)]
             at == {i \in 1..Len(aggregates) : aggregates[i].categoryId = event.category_id}
         IN  IF event.category_id = <<>> THEN aggregates
             ELSE IF at # {}
             THEN [aggregates EXCEPT ![CHOOSE i \in at : TRUE] = Seen(@, event.timestamp)]
             ELSE Append(aggregates,
                         Seen([categoryId |-> event.category_id, count |-> 0,
                               firstSeen |-> event.timestamp,
                               lastSeen |-> event.timestamp], event.timestamp))

\* lines 215-224: the item of an aggregate (label, averages and top regulations, which
\* the order does not depend on, are left out)
PopularityItem(agg) ==
    [category_id |-> agg.categoryId, total_count |-> agg.count,
     first_seen_at |-> agg.firstSeen, last_seen_at |-> agg.lastSeen]

\* lines 228-233: the comparator of items.sort
CompareItems(a, b) ==
    IF b.total_count # a.total_count THEN b.total_count - a.total_count
    ELSE localeCompare(b.last_seen_at, a.last_seen_at)

\* Array.prototype.sort(CompareItems): stable
RECURSIVE InsertItem(_, _)
InsertItem(sorted, item) ==
    IF sorted = <<>> THEN <<item>>
    ELSE IF CompareItems(sorted[Len(sorted)], item) <= 0 THEN Append(sorted, item)
    ELSE Append(InsertItem(SubSeq(sorted, 1, Len(sorted) - 1), item), sorted[Len(sorted)])

RECURSIVE SortItems(_)
SortItems(items) ==
    IF items = <<>> THEN <<>>
    ELSE InsertItem(SortItems(SubSeq(items, 1, Len(items) - 1)), items[Len(items)])

\* generatePopularityRanking, lines 165-251: the items of the ranking it returns, and
\* whether category_popularity.json is written (it is not when no event was read)
generatePopularityRanking(lines) ==
    LET events == readUsageLogs(lines)
        aggregates == aggregateByCategory(events)
    IN  IF Len(events) = 0 THEN [items |-> <<>>, written |-> FALSE]
        ELSE [items |-> SortItems([i \in 1..Len(aggregates) |-> PopularityItem(aggregates[i])]),
              written |-> TRUE]

\* log: the lines of category-usage.ndjson; ran: the job has run; read, items: history,
\* the log the last run read and the items it returned; file: the items of
\* category_popularity.json
NoPopularity == [log |-> <<>>, ran |-> FALSE, read |-> <<>>, items |-> <<>>, file |-> <<>>]

MaxLines == 3        \* lines in category-usage.ndjson

\* A line is appended to the log (by logCategoryUsage, or cut short by a crash)
LogLine(line) ==
    /\ Len(popularity.log) < MaxLines
    /\ popularity' = [popularity EXCEPT !.log = Append(@, line)]
    /\ UNCHANGED <<onlineVars, fileVars, run, merger, bulkVars, reinforceVars>>

\* main, lines 284-296: one run of the job
Generate ==
    /\ LET data == generatePopularityRanking(popularity.log)
       IN  popularity' = [popularity EXCEPT
                !.ran = TRUE, !.read = popularity.log, !.items = data.items,
                !.file = IF data.written THEN data.items ELSE @]
    /\ UNCHANGED <<onlineVars, fileVars, run, merger, bulkVars, reinforceVars>>

AnalyticsAtRest == ReinforceAtRest /\ popularity = NoPopularity

\* No builder is running; the files have not been created
OfflineAtRest ==
    /\ complianceFile = Missing
    /\ factoryFile = Missing
    /\ lastMerge = [f \in Files |-> NoMerge]
    /\ run = NoRun
    /\ merger = NoMerger
    /\ queue = <<>>
    /\ worker = [w \in Workers |-> IdleWorker]
    /\ failedFile = [c \in Range(CategoriesTxt) |-> 0]
    /\ attempts = [d \in Range(CategoriesTxt) |-> NoAttempts]
    /\ counters = NoCounters
    /\ AnalyticsAtRest

-----------------------------------------------------------------------------
(* Specifications *)

NoRet == [op |-> "none", id |-> Absent, count |-> 0, limit |-> 0]

Init ==
    /\ usage = {}
    /\ env = Absent
    /\ clock = 1
    /\ calls = [k \in Identifiers |-> 0]
    /\ charged = [k \in Identifiers |-> 0]
    /\ ret = NoRet
    /\ req = [c \in Callers |-> Idle]
    /\ usageLog = {}
    /\ limitHitLoggedRef = [c \in UIClients |-> FALSE]
    /\ outbox = <<>>
    /\ rules = DeployedRules
    /\ lookup = NoLookup
    /\ vetting = DeployedVetting
    /\ requiredTests = <<>>
    /\ costCall = NoCostCall
    /\ costFirst = NoCostCall
    /\ orderCall = NoOrderCall
    /\ OfflineAtRest

\* The UI clients against the server as deployed (the bypass flag is never set
\* in production, limit.ts lines 43-44)
Next ==
    \/ Tick
    \/ \E c \in UIClients, s \in Sessions, i \in Inputs : Submit(c, s, i)
    \/ \E c \in UIClients : Gate(c)
    \/ \E c \in UIClients : ParseBody(c)
    \/ \E c \in UIClients, m \in ExceptionMessages : AnalyzeThrows(c, m)
    \/ \E c \in UIClients, a \in Analyses, ok \in BOOLEAN : AnalyzeReturns(c, a, ok)
    \/ \E c \in UIClients : Receive(c)
    \/ \E m \in ExceptionMessages : LimitEventsThrows(m)
    \/ LimitEventsNoPrisma
    \/ LimitEventsDbError
    \/ LimitEventsCreate
    \/ Settle

Spec == Init /\ [][Next]_vars

\* A caller speaking HTTP directly to the two endpoints, within one calendar day
NextApi ==
    \/ \E v \in BypassValues : SetEnv(v)
    \/ \E s \in Sessions, i \in Inputs : Submit("api", s, i)
    \/ Gate("api")
    \/ ParseBody("api")
    \/ \E m \in ExceptionMessages : AnalyzeThrows("api", m)
    \/ \E a \in Analyses, ok \in BOOLEAN : AnalyzeReturns("api", a, ok)
    \/ Receive("api")
    \/ \E b \in DirectPayloads : PostLimitEvent(b)
    \/ \E m \in ExceptionMessages : LimitEventsThrows(m)
    \/ LimitEventsInvalid
    \/ LimitEventsNoPrisma
    \/ LimitEventsDbError
    \/ LimitEventsCreate
    \/ Settle

SpecApi == Init /\ [][NextApi]_vars

\* Callers speaking HTTP directly whose requests overlap, within one calendar day and
\* with the bypass flag unset: a handler runs from one await to the next
NextConcurrent ==
    \/ \E c \in DirectCallers, s \in Sessions, i \in Inputs :
            /\ \A k \in Identifiers : calls[k] < MaxRequests
            /\ Arrive(c, s, i)
    \/ \E c \in DirectCallers : Gate(c)
    \/ \E c \in DirectCallers : ParseBody(c)
    \/ \E c \in DirectCallers : AnalyzeThrows(c, "")
    \/ \E c \in DirectCallers, a \in Analyses :
            a.product_name = <<"m", "u", "g">> /\ AnalyzeReturns(c, a, TRUE)
    \/ \E c \in DirectCallers : Receive(c)

SpecConcurrent == Init /\ [][NextConcurrent]_vars

\* The limiter called directly, as its unit tests do
NextLimiter ==
    \/ Tick
    \/ \E v \in EnvValues : SetEnv(v)
    \/ \E k \in Identifiers, a \in BOOLEAN : IncrementUsageCall(k, a)
    \/ \E k \in Identifiers, a \in BOOLEAN : GetUsageCall(k, a)

SpecLimiter == Init /\ [][NextLimiter]_vars

\* The endpoint over the Knowledge Stores a deployment may hold: the rules in
\* either order or without the teether entry, the vetting file complete,
\* partial or missing (a missing file loads as no categories, factoryVetting.ts
\* lines 22-26)
RuleStores ==
    {DeployedRules, <<DeployedRules[2], DeployedRules[1]>>, <<DeployedRules[2]>>}

VettingStores == {DeployedVetting, <<DeployedVetting[2]>>, <<>>}

\* Analyses of the input "baby teether" without a usable HTS code
UncodedAnalyses ==
    {[product_name |-> <<"B", "a", "b", "y", " ", "T", "e", "e", "t", "h", "e", "r">>, hts_code |-> <<"N", "/", "A">>,
      landed_cost |-> <<"$", "2", ".", "9", "1">>]}

InitStores ==
    /\ usage = {}
    /\ env = Absent
    /\ clock = 1
    /\ calls = [k \in Identifiers |-> 0]
    /\ charged = [k \in Identifiers |-> 0]
    /\ ret = NoRet
    /\ req = [c \in Callers |-> Idle]
    /\ usageLog = {}
    /\ limitHitLoggedRef = [c \in UIClients |-> FALSE]
    /\ outbox = <<>>
    /\ rules \in RuleStores
    /\ lookup = NoLookup
    /\ vetting \in VettingStores
    /\ requiredTests = <<>>
    /\ costCall = NoCostCall
    /\ costFirst = NoCostCall
    /\ orderCall = NoOrderCall
    /\ OfflineAtRest

NextStores ==
    \/ \E s \in Sessions, i \in Inputs : Submit("api", s, i)
    \/ Gate("api")
    \/ ParseBody("api")
    \/ \E m \in ExceptionMessages : AnalyzeThrows("api", m)
    \/ \E a \in Analyses \cup UncodedAnalyses, ok \in BOOLEAN : AnalyzeReturns("api", a, ok)
    \/ Receive("api")

SpecStores == InitStores /\ [][NextStores]_vars

-----------------------------------------------------------------------------
(* The resolver functions called directly on bounded stores and queries *)

MaxHtsLen == 3       \* length of an HTS code queried
MaxNameLen == 5      \* length of a product name queried
MaxRules == 2        \* rules in the store

SeqsUpTo(S, n) == UNION {[1..k -> S] : k \in 0..n}

HtsAlphabet == {"9", "5", ".", "x"}
NameAlphabet == {"T", "e", " "}

Markets == {<<>>, <<"u", "s">>, <<"U", "S", "A">>, <<"E", "U">>}

\* markets passed along with a product name
NameMarkets == {<<>>, <<"E", "U">>}

Catalog ==
    <<[id |-> "a", label |-> <<"T", "e", "e">>,
       exampleProducts |-> << <<"t", "e", " ", "t">> >>,
       targetMarkets |-> << <<"U", "S", "A">> >>,
       typicalHtsCodes |-> << <<"9", "5">> >>,
       requiredRegulations |-> <<>>],
      [id |-> "b", label |-> <<"t", "o", "t">>,
       exampleProducts |-> << <<"e", "t", "E">>, <<"t", "e">> >>,
       targetMarkets |-> << <<"E", "U">>, <<"u", "s">> >>,
       typicalHtsCodes |-> << <<"9", ".", "5">>, <<"x", "5", "x", "9">> >>,
       requiredRegulations |-> <<>>],
      [id |-> "c", label |-> <<"e", "T", "e">>,
       exampleProducts |-> <<>>,
       targetMarkets |-> <<>>,
       typicalHtsCodes |-> << <<"5", ".">> >>,
       requiredRegulations |-> <<>>]>>

\* Stores: up to MaxRules catalog rules in any order, ids unique
Stores ==
    {[i \in 1..Len(o) |-> Catalog[o[i]]] :
        o \in {q \in SeqsUpTo(1..Len(Catalog), MaxRules) :
                  \A i, j \in 1..Len(q) : i # j => q[i] # q[j]}}

InitResolver ==
    /\ usage = {}
    /\ env = Absent
    /\ clock = 1
    /\ calls = [k \in Identifiers |-> 0]
    /\ charged = [k \in Identifiers |-> 0]
    /\ ret = NoRet
    /\ req = [c \in Callers |-> Idle]
    /\ usageLog = {}
    /\ limitHitLoggedRef = [c \in UIClients |-> FALSE]
    /\ outbox = <<>>
    /\ rules \in Stores
    /\ lookup = NoLookup
    /\ vetting = <<>>
    /\ requiredTests = <<>>
    /\ costCall = NoCostCall
    /\ costFirst = NoCostCall
    /\ orderCall = NoOrderCall
    /\ OfflineAtRest

\* The functions keep no state between calls (the store is loaded once and
\* never written), so a behaviour makes one call.
CallByHtsCode(htsCode, market) ==
    /\ lookup = NoLookup
    /\ lookup' = [fn |-> "hts", query |-> htsCode, id |-> Absent, market |-> market,
                  result |-> getComplianceByHtsCode(rules, htsCode, market)]
    /\ UNCHANGED <<limiterVars, pipelineVars, rules, vetting, costVars, offlineVars>>

CallByProductName(productName, market) ==
    /\ lookup = NoLookup
    /\ lookup' = [fn |-> "name", query |-> productName, id |-> Absent, market |-> market,
                  result |-> getComplianceByProductName(rules, productName, market)]
    /\ UNCHANGED <<limiterVars, pipelineVars, rules, vetting, costVars, offlineVars>>

CallByCategory(categoryId, market) ==
    /\ lookup = NoLookup
    /\ lookup' = [fn |-> "category", query |-> <<>>, id |-> categoryId, market |-> market,
                  result |-> getComplianceByCategory(rules, categoryId, market)]
    /\ UNCHANGED <<limiterVars, pipelineVars, rules, vetting, costVars, offlineVars>>

NextResolver ==
    \/ \E q \in SeqsUpTo(HtsAlphabet, MaxHtsLen), m \in Markets : CallByHtsCode(q, m)
    \/ \E q \in SeqsUpTo(NameAlphabet, MaxNameLen), m \in NameMarkets : CallByProductName(q, m)
    \/ \E i \in 1..Len(Catalog), m \in Markets : CallByCategory(Catalog[i].id, m)

SpecResolver == InitResolver /\ [][NextResolver]_vars

-----------------------------------------------------------------------------
(* The cost functions called directly *)

MaxCalls == 3
MaxCostLen == 4      \* length of a landed-cost string passed to estimateInitialOrderCost        \* direct calls of estimateTestingCost in a behaviour

\* requiredRegulations of the rules passed to estimateTestingCost
RequiredRegulations ==
    {<<>>,
     <<<<"C", "P", "S", "I", "A">>>>,
     <<<<"C", "P", "S", "I", "A">>, <<"C", "P", "S", "I", "A", " ", "/", " ", "A", "S", "T", "M", "-", "F", "9", "6", "3">>>>,
     <<<<"A", "S", "T", "M", " ", "F", "9", "6", "3">>, <<"P", "r", "o", "p", " ", "6", "5">>>>,
     <<<<"F", "D", "A", " ", "2", "1", " ", "C", "F", "R">>>>,
     <<<<"f", "d", "a", "-", "2", "1", "-", "c", "f", "r", " ", "1", "7", "7">>, <<"1", "6", " ", "C", "F", "R", " ", "1", "3", "0", "3", " ", "(", "c", "p", "s", "i", "a", ")">>>>,
     <<<<"1", "6", " ", "C", "F", "R", " ", "1", "3", "0", "3", " ", "(", "c", "p", "s", "i", "a", ")">>, <<"f", "d", "a", "-", "2", "1", "-", "c", "f", "r", " ", "1", "7", "7">>>>}

InitCost ==
    /\ usage = {}
    /\ env = Absent
    /\ clock = 1
    /\ calls = [k \in Identifiers |-> 0]
    /\ charged = [k \in Identifiers |-> 0]
    /\ ret = NoRet
    /\ req = [c \in Callers |-> Idle]
    /\ usageLog = {}
    /\ limitHitLoggedRef = [c \in UIClients |-> FALSE]
    /\ outbox = <<>>
    /\ rules = DeployedRules
    /\ lookup = NoLookup
    /\ vetting = DeployedVetting
    /\ requiredTests = <<>>
    /\ costCall = NoCostCall
    /\ costFirst = NoCostCall
    /\ orderCall = NoOrderCall
    /\ OfflineAtRest

\* estimateTestingCost(complianceRule), testCost.ts lines 54-84
CallEstimateTestingCost(requiredRegulations) ==
    LET tests == RegLoop(NewSet(requiredTests), requiredRegulations, 1)
        call == [n |-> costCall.n + 1,
                 mixed |-> costCall.n > 0
                           /\ (costCall.mixed
                               \/ requiredRegulations # costFirst.requiredRegulations),
                 requiredRegulations |-> requiredRegulations,
                 tests |-> CostEstimate(tests)]
    IN /\ costCall.n < MaxCalls /\ orderCall.n = 0
       /\ requiredTests' = tests
       /\ costCall' = call
       /\ costFirst' = IF costCall.n = 0 THEN call ELSE costFirst
       /\ UNCHANGED <<limiterVars, pipelineVars, rules, lookup, vetting, orderCall, offlineVars>>

CostAlphabet == {"$", "2", "9", ".", "-"}

\* landed_cost strings: the bounded ones, and formatted prices
LandedCosts ==
    SeqsUpTo(CostAlphabet, MaxCostLen)
        \cup {<<"$", "2", ".", "9", "1">>, <<"$", "1", ",", "2", "3", "4", ".", "5", "0">>, <<"U", "S", "D", " ", "0", ".", "8", "5">>, <<"N", "/", "A">>}

\* testing_cost_estimate values: absent, empty, estimates of rules, and a
\* list whose high bounds add up to 970
TestingCostEstimates ==
    {NoEstimate, Estimate(<<>>),
     Estimate(CostEstimate(<<"CPSIA Lead Content", "CPSIA Phthalates",
                             "CPSIA Tracking Label">>)),
     Estimate(CostEstimate(<<"CPSIA Lead Content", "ASTM F963 Mechanical",
                             "ASTM F963 Heavy Metals">>))}

\* estimateInitialOrderCost(analysis), orderCost.ts lines 24-54.  The function
\* keeps nothing between calls, so a behaviour makes one call.
CallEstimateInitialOrderCost(testing_cost_estimate, landed_cost) ==
    /\ orderCall.n = 0 /\ costCall.n = 0
    /\ orderCall' = [n |-> 1, testing_cost_estimate |-> testing_cost_estimate,
                     landed_cost |-> landed_cost,
                     result |-> estimateInitialOrderCost(testing_cost_estimate, landed_cost)]
    /\ UNCHANGED <<limiterVars, pipelineVars, rules, lookup, vetting,
                   requiredTests, costCall, costFirst, offlineVars>>

NextCost ==
    \/ \E regs \in RequiredRegulations : CallEstimateTestingCost(regs)
    \/ \E t \in TestingCostEstimates, l \in LandedCosts : CallEstimateInitialOrderCost(t, l)

SpecCost == InitCost /\ [][NextCost]_vars

-----------------------------------------------------------------------------
(* The builders run against a Knowledge Store on disk *)

Slugs == {slugify(d) : d \in Descriptions}
Records == {Record(id, revision) : id \in Slugs, revision \in Revisions}

\* The state of either file when a builder starts
FilesOnDisk ==
    {<<Missing, Missing>>,
     <<Json(<<>>), Missing>>,
     <<Corrupt, Json(<<Record(<<"m", "u", "g">>, "r1")>>)>>,
     <<Json(<<Record(<<"m", "u", "g">>, "r1")>>), Corrupt>>,
     <<Json(<<Record(<<"t", "e", "a", "_", "c", "u", "p">>, "r1"), Record(<<"m", "u", "g">>, "r2")>>),
       Json(<<Record(<<"t", "e", "a", "_", "c", "u", "p">>, "r1"), Record(<<"m", "u", "g">>, "r2")>>)>>}

OnlineAtRest ==
    /\ usage = {}
    /\ env = Absent
    /\ clock = 1
    /\ calls = [k \in Identifiers |-> 0]
    /\ charged = [k \in Identifiers |-> 0]
    /\ ret = NoRet
    /\ req = [c \in Callers |-> Idle]
    /\ usageLog = {}
    /\ limitHitLoggedRef = [c \in UIClients |-> FALSE]
    /\ outbox = <<>>
    /\ rules = DeployedRules
    /\ lookup = NoLookup
    /\ vetting = DeployedVetting
    /\ requiredTests = <<>>
    /\ costCall = NoCostCall
    /\ costFirst = NoCostCall
    /\ orderCall = NoOrderCall

InitBuilder ==
    /\ OnlineAtRest
    /\ \E onDisk \in FilesOnDisk : complianceFile = onDisk[1] /\ factoryFile = onDisk[2]
    /\ lastMerge = [f \in Files |-> NoMerge]
    /\ run = NoRun
    /\ merger = NoMerger
    /\ queue = <<>>
    /\ worker = [w \in Workers |-> IdleWorker]
    /\ failedFile = [c \in Range(CategoriesTxt) |-> 0]
    /\ attempts = [d \in Range(CategoriesTxt) |-> NoAttempts]
    /\ counters = NoCounters
    /\ AnalyticsAtRest

NextBuilder ==
    \/ \E inputText \in Descriptions \cup {<<>>} : Start(inputText)
    \/ \E outcome \in CallOutcomes : ParseInputReturns(outcome)
    \/ \E outcome \in CallOutcomes : ResearchReturns(outcome)
    \/ \E outcome \in VerifyOutcomes, revision \in Revisions : VerifyReturns(outcome, revision)
    \/ EnsureCompliance
    \/ EnsureFactory
    \/ ReadCompliance
    \/ WriteCompliance
    \/ ReadFactory
    \/ WriteFactory
    \/ \E outcome \in CallOutcomes, gitOk \in BOOLEAN : ReparseReturns(outcome, gitOk)
    \/ \E file \in Files, newData \in Records : MergeJsonRead(file, newData)
    \/ MergeJsonWrite

SpecBuilder == InitBuilder /\ [][NextBuilder]_vars

\* The worker pool of the bulk builder on a queue of categories
MaxQueue == 4        \* categories in categories.txt

\* What main holds in categories (line 717) when getCategories has read the file. As
\* written, line 716 hands process.argv itself to getCategories, whose readFile then
\* rejects, so that main returns at line 721 with nothing processed; the pool below is
\* the one main runs when the categories of the file reach it.
Queues == {SubSeq(CategoriesTxt, 1, n) : n \in 1..MaxQueue}

ChildOutputs ==
    {ChildFailed, ChildPrinted(None),
     ChildPrinted(Some([compliance |-> Record(<<"m", "u", "g">>, "r1"),
                        factory |-> Record(<<"m", "u", "g">>, "r1")]))}

\* Both files as an earlier bulk run over the same categories.txt left them
Generated == Json([i \in 1..Len(CategoriesTxt) |-> Record(slugify(CategoriesTxt[i]), "r1")])

\* main, lines 724 and 750: Array(CONCURRENCY).fill(null).map(worker) runs each worker
\* in turn to its first await, so the first categories are taken in order and a worker
\* that finds the queue empty returns at once
StartWorkers(categories) ==
    [w \in Workers |->
        IF w <= Len(categories)
        THEN [pc |-> "exec", category |-> categories[w], attempt |-> 1]
        ELSE [IdleWorker EXCEPT !.pc = "done"]]

BulkStartsOn(categories) ==
    /\ OnlineAtRest
    /\ complianceFile = Generated
    /\ factoryFile = Generated
    /\ lastMerge = [f \in Files |-> NoMerge]
    /\ run = NoRun
    /\ merger = NoMerger
    /\ worker = StartWorkers(categories)
    /\ queue = SubSeq(categories, CONCURRENCY + 1, Len(categories))
    /\ counters = [NoCounters EXCEPT !.categories = Len(categories)]
    /\ failedFile = [c \in Range(CategoriesTxt) |-> 0]
    /\ attempts = [d \in Range(CategoriesTxt) |-> NoAttempts]
    /\ AnalyticsAtRest

InitBulk == \E categories \in Queues : BulkStartsOn(categories)

NextBulk ==
    \/ \E w \in Workers : Take(w)
    \/ \E w \in Workers : Leave(w)
    \/ \E w \in Workers, output \in ChildOutputs : ChildExits(w, output, "r2")
    \/ \E w \in Workers : AppendFailed(w)
    \/ \E gitOk \in BOOLEAN : Finish(gitOk)

SpecBulk == InitBulk /\ [][NextBulk]_vars

\* The bulk builder on a file of as many categories as make a commit batch
InitBatch == BulkStartsOn(SubSeq(CategoriesTxt, 1, COMMIT_BATCH_SIZE))
SpecBatch == InitBatch /\ [][NextBulk]_vars

\* The reinforcement tool on the top N of a popularity ranking
MaxTopN == 3         \* the N of "reinforceTopCategories.ts [N]"

\* Array.prototype.slice(0, n)
slice(seq, n) == SubSeq(seq, 1, IF n < Len(seq) THEN n ELSE Len(seq))

\* Both files hold a record for every ranked category
Ranked ==
    Json([i \in 1..Len(PopularityItems) |-> Record(PopularityItems[i].category_id, "r1")])

\* main, lines 262-285: the ranking is loaded and processCategoriesWithConcurrency is
\* called with the top N items
InitReinforce ==
    /\ OnlineAtRest
    /\ complianceFile = Ranked
    /\ factoryFile = Ranked
    /\ lastMerge = [f \in Files |-> NoMerge]
    /\ run = NoRun
    /\ merger = NoMerger
    /\ queue = <<>>
    /\ worker = [w \in Workers |-> IdleWorker]
    /\ failedFile = [c \in Range(CategoriesTxt) |-> 0]
    /\ attempts = [d \in Range(CategoriesTxt) |-> NoAttempts]
    /\ counters = NoCounters
    /\ \E topN \in 1..MaxTopN :
            /\ tool = [NoTool EXCEPT !.pc = "pool",
                                     !.topCategories = slice(PopularityItems, topN)]
            /\ pool = [NoPool EXCEPT !.queue = slice(PopularityItems, topN)]
    /\ popularity = NoPopularity

NextReinforce ==
    \/ Fill
    \/ \E i \in 1..(PoolConcurrency + 1), success \in BOOLEAN : Reinforced(i, success, "r2")
    \/ PoolReturns
    \/ \E success \in BOOLEAN : Retry(success, "r2")
    \/ Summarise

SpecReinforce == InitReinforce /\ [][NextReinforce]_vars

\* Either offline tool with a worker pool, started on its input
InitPools == InitBulk \/ InitReinforce
NextPools == NextBulk \/ NextReinforce
SpecPools == InitPools /\ [][NextPools]_vars

\* The popularity job run, any number of times, on a usage log that grows
InitPopularity == OnlineAtRest /\ OfflineAtRest

NextPopularity ==
    \/ \E line \in LogLines : LogLine(line)
    \/ Generate

SpecPopularity == InitPopularity /\ [][NextPopularity]_vars

-----------------------------------------------------------------------------
(* Usage limiter: properties *)

\* incrementUsage was called for identifier k in this step.
Called(k) == calls'[k] = calls[k] + 1

\* Every call made for k today was made with the bypass flag unset.
Unbypassed(k) == calls'[k] = charged'[k]

\* C1: with the bypass flag unset and the day unchanged, the Nth call of
\* incrementUsage for an identifier returns count = N, for either
\* authentication state, also beyond the limit.
C1_NthCallReturnsN ==
    [][\A k \in Identifiers :
          (Called(k) /\ Unbypassed(k))
             => (ret'.op = "incrementUsage" /\ ret'.id = k /\ ret'.count = calls'[k])]_vars

\* C1 witness: a call beyond the authenticated limit has returned its ordinal.
C1_Witness ==
    /\ ret.op = "incrementUsage"
    /\ calls[ret.id] = charged[ret.id]
    /\ ret.count = calls[ret.id]
    /\ ret.count > AUTHENTICATED_LIMIT + 1

\* C2: while the bypass flag is 'true', every incrementUsage call returns
\* count = 0 and the usage store is left as it was.
C2_BypassLeavesStore ==
    [][env = "true" =>
          /\ usage' = usage
          /\ \A k \in Identifiers :
                Called(k) => (ret'.op = "incrementUsage" /\ ret'.id = k /\ ret'.count = 0)]_vars

\* C2 witness: a bypassed call has returned 0 for an identifier that holds a
\* count from earlier calls today.
C2_Witness ==
    /\ env = "true"
    /\ ret.op = "incrementUsage" /\ ret.count = 0
    /\ calls[ret.id] > charged[ret.id]
    /\ MapHas(usage, ret.id)
    /\ MapGet(usage, ret.id) = [id |-> ret.id, count |-> charged[ret.id], date |-> Today]
    /\ charged[ret.id] > 1

AtMostOneEntry(m) == \A e1, e2 \in m : e1.id = e2.id => e1 = e2

\* Within a day the count of today's entry for k does not decrease.
NoDecrease(k) ==
    (MapHas(usage, k) /\ MapGet(usage, k).date = Today /\ clock' = clock)
        => (MapHas(usage', k) /\ MapGet(usage', k).count >= MapGet(usage, k).count)

\* A call for k adds exactly 1 to today's entry and replaces an entry of another day.
CallCounts(k) ==
    (Called(k) /\ MapHas(usage, k))
        => IF MapGet(usage, k).date = Today
           THEN MapGet(usage', k) = [id |-> k, count |-> MapGet(usage, k).count + 1,
                                     date |-> Today]
           ELSE MapGet(usage', k) = [id |-> k, count |-> 1, date |-> Today]

\* C4 as stated: at most one entry per identifier; within a day a count only
\* increases, by exactly 1 per incrementUsage call; the first call on another
\* day replaces the entry with {count: 1, date: today}.
C4_Original ==
    [][/\ AtMostOneEntry(usage')
       /\ \A k \in Identifiers : NoDecrease(k) /\ CallCounts(k)]_vars

\* C4 amended: as C4, for the calls made with the bypass flag unset; a call
\* made while the flag is 'true' leaves the entry untouched.
C4_Amended ==
    [][/\ AtMostOneEntry(usage')
       /\ \A k \in Identifiers :
             /\ NoDecrease(k)
             /\ env # "true" => CallCounts(k)
             /\ (env = "true" /\ Called(k)) => usage' = usage]_vars

\* C4 witness: on a later day a call has replaced an identifier's entry with
\* {count: 1, date: today} while the other identifier's entry is still
\* yesterday's.
C4_Witness ==
    /\ clock > 1
    /\ ret.op = "incrementUsage" /\ ret.count = 1
    /\ calls[ret.id] = 1 /\ charged[ret.id] = 1
    /\ MapHas(usage, ret.id)
    /\ MapGet(usage, ret.id) = [id |-> ret.id, count |-> 1, date |-> Today]
    /\ \E e \in usage : e.date # Today /\ e.count > 1

-----------------------------------------------------------------------------
(* POST /api/analyze-product: properties *)

\* The gate of the handler serving caller c ran in this step.
GateStep(c) == req[c].pc = "sent" /\ req'[c].pc # "sent"

Is429(r, reason) ==
    /\ r.pc = "done"
    /\ r.resp.status = 429 /\ ~r.resp.ok
    /\ r.resp.error = "quota_exceeded" /\ r.resp.reason = reason

\* The answer is 429 exactly when the limiter result has count > limit, the
\* limit being 1 for anonymous and 5 for authenticated callers.
GateDecides(r) ==
    r.pc \notin {"idle", "sent"}
        => /\ r.limit = IF r.session = NoSession THEN 1 ELSE 5
           /\ (r.resp.status = 429) <=> (r.count > r.limit)
           /\ r.resp.status = 429 => r.resp.error = "quota_exceeded"

\* A 429 answer is produced by the gate itself, before the body is read, and
\* the step that produces it writes no usage event.
RejectedBeforeAnalysis(c) ==
    (req'[c].resp.status = 429 /\ req'[c] # req[c])
        => (req[c].pc = "sent" /\ usageLog' = usageLog)

\* The request of caller c handled in this step is the n-th of its identifier
\* today, n = calls'[k]: anonymous 1 passes and 2 is rejected, authenticated
\* 1..5 pass and 6 is rejected.
Scenario(c, k) ==
    IF req[c].session = NoSession
    THEN /\ calls'[k] = 1 => req'[c].pc = "gated"
         /\ calls'[k] = 2 => Is429(req'[c], "anonymous_daily_limit")
    ELSE /\ calls'[k] \in 1..5 => req'[c].pc = "gated"
         /\ calls'[k] = 6 => Is429(req'[c], "user_daily_limit")

KeyOf(c) == IdentifierOf(req[c].session, CHOOSE ip \in ForwardedFor : TRUE,
                         CHOOSE userAgent \in UserAgents : TRUE)

\* C3 as stated: 429 quota_exceeded exactly when count > limit; for one
\* identifier on one day the anonymous caller's first request passes the gate
\* and the second gets 429 anonymous_daily_limit, the authenticated caller's
\* first five pass and the sixth gets 429 user_daily_limit; a request
\* rejected with 429 never invokes the analysis.
C3_Original ==
    [][\A c \in Callers :
          /\ GateDecides(req'[c])
          /\ RejectedBeforeAnalysis(c)
          /\ GateStep(c) => Scenario(c, KeyOf(c))]_vars

\* C3 amended: the same, the first/second and fifth/sixth request scenario
\* being that of an identifier whose requests of the day were all handled
\* with the bypass flag unset.
C3_Amended ==
    [][\A c \in Callers :
          /\ GateDecides(req'[c])
          /\ RejectedBeforeAnalysis(c)
          /\ (GateStep(c) /\ Unbypassed(KeyOf(c))) => Scenario(c, KeyOf(c))]_vars

\* C3 witness: the sixth request of the authenticated caller has been answered
\* 429 user_daily_limit, its five earlier requests having passed the gate.
C3_Witness ==
    /\ Is429(req["api"], "user_daily_limit")
    /\ req["api"].session \in Emails
    /\ req["api"].count = 6
    /\ calls[req["api"].session] = 6 /\ charged[req["api"].session] = 6

\* C5: a request answered 400 for a missing or empty input has had no side
\* effect: the caller's usage count for the day is what it was when the
\* request was sent, and no usage-log event has been written.
C5_Rejected400NoSideEffects ==
    \A c \in Callers :
        req[c].resp.status = 400
            => /\ getUsage(usage, Today, KeyOf(c), req[c].session # NoSession).count
                      = req[c].usedBefore
               /\ Cardinality(usageLog) = req[c].loggedBefore

\* C6: every submission of a UI client answered 429 quota_exceeded sends a
\* limit_hit event carrying that attempt's reason and input to
\* /api/limit-events, whatever was submitted before.
C6_EveryQuotaHitLogged ==
    [][\A c \in UIClients :
          (req[c].pc = "done" /\ QuotaExceeded(req[c]) /\ req'[c].pc = "idle")
              => /\ Len(outbox') = Len(outbox) + 1
                 /\ outbox'[Len(outbox')].action = "limit_hit"
                 /\ outbox'[Len(outbox')].reason = req[c].resp.reason
                 /\ outbox'[Len(outbox')].input = req[c].input]_vars

\* The error codes of the two endpoints
MachineCodes == {"quota_exceeded", "invalid_payload", "server_error"}

IsErrorResponse(resp) == resp.status \in {400, 429, 500}

\* A code in error, a text in message, no exception message in either
ErrorShape(resp) ==
    /\ resp.error \in MachineCodes
    /\ resp.message # Absent
    /\ resp.error \notin ExceptionMessages \ GenericMessages
    /\ resp.message \notin ExceptionMessages \ GenericMessages

\* C7: every error response (400, 429, 500) of POST /api/analyze-product and
\* of POST /api/limit-events carries a machine-readable code in error and a
\* human-readable message, and exposes no internal exception message.
C7_ErrorResponsesShaped ==
    /\ \A c \in Callers : IsErrorResponse(req[c].resp) => ErrorShape(req[c].resp)
    /\ \A i \in 1..Len(outbox) :
          IsErrorResponse(outbox[i].resp) => ErrorShape(outbox[i].resp)

-----------------------------------------------------------------------------
(* Category resolver: properties, stated without the resolver's own helpers *)

IsPrefix(p, t) == Len(p) <= Len(t) /\ \A i \in 1..Len(p) : p[i] = t[i]

IsSubstring(t, text) ==
    \E off \in 0..(Len(text) - Len(t)) : \A i \in 1..Len(t) : text[off + i] = t[i]

Lowered(text) ==
    [i \in 1..Len(text) |->
        IF \E j \in 1..26 : UpperCase[j] = text[i]
        THEN LowerCase[CHOOSE j \in 1..26 : UpperCase[j] = text[i]]
        ELSE text[i]]

DigitsAndDots(text) ==
    LET keep == {i \in 1..Len(text) : text[i] \in Digits \/ text[i] = "."}
        nth(n) == CHOOSE i \in keep : Cardinality({h \in keep : h < i}) = n - 1
    IN [n \in 1..Cardinality(keep) |-> text[nth(n)]]

\* The whitespace-delimited tokens of a text: its maximal pieces free of white space
Tokens(text) ==
    {SubSeq(text, i, j) : <<i, j>> \in
        {p \in (1..Len(text)) \X (1..Len(text)) :
            /\ p[1] <= p[2]
            /\ \A h \in p[1]..p[2] : text[h] # " "
            /\ p[1] = 1 \/ text[p[1] - 1] = " "
            /\ p[2] = Len(text) \/ text[p[2] + 1] = " "}}

\* The rule at the first position of the store that satisfies ok, if any
FirstRule(ok(_)) ==
    IF \E i \in 1..Len(rules) : ok(rules[i])
    THEN rules[CHOOSE i \in 1..Len(rules) :
                   ok(rules[i]) /\ \A h \in 1..(i - 1) : ~ok(rules[h])]
    ELSE NoRule

\* One of the rule's typicalHtsCodes and the query, both normalized, are
\* prefix-related.
PrefixRelated(rule, htsCode) ==
    \E i \in 1..Len(rule.typicalHtsCodes) :
        \/ IsPrefix(DigitsAndDots(htsCode), DigitsAndDots(rule.typicalHtsCodes[i]))
        \/ IsPrefix(DigitsAndDots(rule.typicalHtsCodes[i]), DigitsAndDots(htsCode))

HasDigit(text) == \E i \in 1..Len(text) : text[i] \in Digits

\* C8: getComplianceByHtsCode matches a rule when the normalized query is a
\* prefix of one of its normalized typicalHtsCodes or the other way round (the
\* first such rule is returned when no market is given), and matches no rule
\* when nothing is prefix-related, which includes a query without any digit.
C8_PrefixSymmetricNoDigitsNoMatch ==
    lookup.fn = "hts" =>
        /\ lookup.result # NoRule => PrefixRelated(lookup.result, lookup.query)
        /\ (lookup.market = <<>> /\ HasDigit(lookup.query))
              => lookup.result = FirstRule(LAMBDA r : PrefixRelated(r, lookup.query))
        /\ ~HasDigit(lookup.query) => lookup.result = NoRule

\* Some query token of length > 2 is a substring of the rule's lowercased
\* label or of one of its lowercased exampleProducts.
TokenHit(rule, productName) ==
    \E t \in Tokens(Lowered(productName)) :
        /\ Len(t) > 2
        /\ \/ IsSubstring(t, Lowered(rule.label))
           \/ \E i \in 1..Len(rule.exampleProducts) :
                  IsSubstring(t, Lowered(rule.exampleProducts[i]))

\* One of the rule's targetMarkets contains, or is contained in, the market,
\* letter case aside.
Overlaps(rule, market) ==
    \E i \in 1..Len(rule.targetMarkets) :
        \/ IsSubstring(Lowered(market), Lowered(rule.targetMarkets[i]))
        \/ IsSubstring(Lowered(rule.targetMarkets[i]), Lowered(market))

\* C9: getComplianceByProductName returns the first rule in collection order
\* (among those the market filter lets through, all of them when no market is
\* given) for which some whitespace-delimited query token of length > 2 is,
\* letter case aside, a substring of the rule's label or exampleProducts; it
\* returns no rule when every token has length <= 2 or no rule qualifies.
C9_FirstRuleWithTokenHit ==
    lookup.fn = "name" =>
        /\ lookup.result =
              FirstRule(LAMBDA r : TokenHit(r, lookup.query)
                                      /\ marketAccepts(r, lookup.market))
        /\ (\A t \in Tokens(lookup.query) : Len(t) <= 2) => lookup.result = NoRule

\* C9 witness: a query of two tokens, one of them too short and the other in
\* capitals, has resolved to the second rule of the store, the first rule
\* holding neither token.
C9_Witness ==
    /\ lookup.fn = "name" /\ lookup.market = <<>>
    /\ lookup.query = <<"e", " ", "T", "e", "e">>
    /\ Len(rules) = 2 /\ rules[1].id = "b"
    /\ lookup.result = rules[2] /\ lookup.result.id = "a"

\* The first rule matching the query of the call that the market test ok lets through
Resolved(ok(_, _)) ==
    IF lookup.fn = "hts"
    THEN FirstRule(LAMBDA r : PrefixRelated(r, lookup.query) /\ ok(r, lookup.market))
    ELSE IF lookup.fn = "name"
    THEN FirstRule(LAMBDA r : TokenHit(r, lookup.query) /\ ok(r, lookup.market))
    ELSE LET found == FirstRule(LAMBDA r : r.id = lookup.id) IN
         IF found # NoRule /\ ok(found, lookup.market) THEN found ELSE NoRule

OverlapsOrUnrestricted(rule, market) ==
    Len(rule.targetMarkets) = 0 \/ Overlaps(rule, market)

\* C10 as stated: with a market argument a rule is returned only if one of
\* its targetMarkets case-insensitively contains, or is contained in, the
\* market; a candidate without such an overlap is skipped and the next one in
\* collection order is tried.
C10_Original ==
    (lookup.fn \in {"hts", "name", "category"} /\ lookup.market # <<>>)
        => /\ lookup.result # NoRule => Overlaps(lookup.result, lookup.market)
           /\ lookup.fn # "category" => lookup.result = Resolved(Overlaps)

\* C10 amended: a rule that lists targetMarkets is returned only if one of
\* them overlaps the market, a rule listing none is accepted for any market;
\* the HTS and product-name lookups skip a rejected candidate and try the
\* next, the lookup by category id returns no rule when its rule is rejected.
C10_Amended ==
    (lookup.fn \in {"hts", "name", "category"} /\ lookup.market # <<>>)
        => /\ lookup.result # NoRule
                 => OverlapsOrUnrestricted(lookup.result, lookup.market)
           /\ lookup.result = Resolved(OverlapsOrUnrestricted)

\* C10 witness: for market "EU" the HTS lookup has skipped the first rule of
\* the store, whose code matches but which targets "USA" only, and returned
\* the next one, which targets "EU".
C10_Witness ==
    /\ lookup.fn = "hts" /\ lookup.market = <<"E", "U">>
    /\ Len(rules) = 2
    /\ PrefixRelated(rules[1], lookup.query) /\ ~Overlaps(rules[1], lookup.market)
    /\ Len(rules[1].targetMarkets) > 0
    /\ lookup.result = rules[2] /\ Overlaps(rules[2], lookup.market)

-----------------------------------------------------------------------------
(* Enrichment of the 200 response: properties *)

Answered200(r) == r.pc = "done" /\ r.resp.status = 200 /\ r.resp.ok

\* Neither the HTS lookup nor the product-name fallback finds a rule for the
\* analysis the response carries.
NoCategoryMatched(r) ==
    /\ getComplianceByHtsCode(rules, r.resp.analysis.hts_code, <<>>) = NoRule
    /\ getComplianceByProductName(rules, r.resp.analysis.product_name, <<>>) = NoRule

NoHintsNoDerivations(a) ==
    /\ a.compliance_hints = Absent
    /\ a.factory_vetting_hints = Absent
    /\ a.testing_cost_estimate = NoEstimate
    /\ a.regulation_reasoning = None

\* C11 as stated: when neither lookup matches a category the 200 response's
\* analysis has no testing_cost_estimate, no regulation_reasoning, no
\* initial_order_cost, no compliance_hints and no factory_vetting_hints.
C11_Original ==
    \A c \in Callers :
        (Answered200(req[c]) /\ NoCategoryMatched(req[c]))
            => /\ NoHintsNoDerivations(req[c].resp.analysis)
               /\ req[c].resp.analysis.initial_order_cost = None

\* C11 amended: when neither lookup matches, the analysis has no
\* testing_cost_estimate, regulation_reasoning, compliance_hints or
\* factory_vetting_hints; initial_order_cost is present all the same, with
\* testingCostTotal = 0.
C11_Amended ==
    \A c \in Callers :
        (Answered200(req[c]) /\ NoCategoryMatched(req[c]))
            => /\ NoHintsNoDerivations(req[c].resp.analysis)
               /\ req[c].resp.analysis.initial_order_cost # None
               /\ req[c].resp.analysis.initial_order_cost[1].testingCostTotal = 0

\* C11 witness: a 200 response for an analysis no rule of the store matches.
C11_Witness ==
    /\ Answered200(req["api"]) /\ NoCategoryMatched(req["api"])
    /\ Len(rules) = 2
    /\ req["api"].resp.analysis.product_name = <<"m", "u", "g">>
    /\ req["api"].resp.analysis.initial_order_cost # None

\* The Knowledge Store holds a baby_teether entry, in both of its collections,
\* one of whose requiredRegulations contains "CPSIA".
HoldsTeetherEntry ==
    /\ \E i \in 1..Len(rules) :
          /\ rules[i].id = "baby_teether"
          /\ \E j \in 1..Len(rules[i].requiredRegulations) :
                IsSubstring(<<"C", "P", "S", "I", "A">>, rules[i].requiredRegulations[j])
    /\ \E i \in 1..Len(vetting) : vetting[i].id = "baby_teether"

TestNames(a) ==
    IF a.testing_cost_estimate = NoEstimate THEN {}
    ELSE {a.testing_cost_estimate[1][i].test : i \in 1..Len(a.testing_cost_estimate[1])}

SameIdWhenBoth(a) ==
    (a.compliance_hints # Absent /\ a.factory_vetting_hints # Absent)
        => a.compliance_hints = a.factory_vetting_hints

\* The entry the analysis resolves to: the first rule prefix-related to its
\* HTS code or, when there is none, the first rule holding one of its name
\* tokens.
ResolvedEntry(a) ==
    LET byHts == FirstRule(LAMBDA r : PrefixRelated(r, a.hts_code)) IN
    IF byHts # NoRule THEN byHts
    ELSE FirstRule(LAMBDA r : TokenHit(r, a.product_name))

-----------------------------------------------------------------------------
(* Cost functions: properties *)

KnownKeys == {<<"c", "p", "s", "i", "a">>, <<"a", "s", "t", "m", "-", "f", "9", "6", "3">>, <<"f", "d", "a", "-", "2", "1", "-", "c", "f", "r">>}

NoKnownKey(requiredRegulations) ==
    \A i \in 1..Len(requiredRegulations), key \in KnownKeys :
        ~IsSubstring(key, Lowered(requiredRegulations[i]))

\* C12: estimateTestingCost depends on rule.requiredRegulations alone: a call
\* returns the list the first call on the same regulations returned, whatever
\* calls were made in between; no test appears twice in a list; regulations
\* containing no known key (cpsia, astm-f963, fda-21-cfr, letter case aside)
\* give the empty list.
C12_PureDedupedEstimate ==
    costCall.n > 0 =>
        /\ costCall.requiredRegulations = costFirst.requiredRegulations
               => costCall.tests = costFirst.tests
        /\ \A i, j \in 1..Len(costCall.tests) :
               costCall.tests[i].test = costCall.tests[j].test => i = j
        /\ NoKnownKey(costCall.requiredRegulations) => costCall.tests = <<>>

\* C12 witness: the third call repeats the first, a call on other regulations
\* lying between them, on a rule two of whose regulations map to the CPSIA
\* tests; the six tests are listed once each.
C12_Witness ==
    /\ costCall.n = 3 /\ costCall.mixed
    /\ costCall.requiredRegulations = costFirst.requiredRegulations
    /\ costCall.requiredRegulations = <<<<"C", "P", "S", "I", "A">>, <<"C", "P", "S", "I", "A", " ", "/", " ", "A", "S", "T", "M", "-", "F", "9", "6", "3">>>>
    /\ Len(costCall.tests) = 6
    /\ costCall.tests = costFirst.tests

\* Equality of two decimals
SameAmount(x, y) ==
    LET scale == IF x.scale > y.scale THEN x.scale ELSE y.scale IN
    /\ ~x.nan /\ ~y.nan
    /\ x.num * Pow10(scale - x.scale) = y.num * Pow10(scale - y.scale)

RECURSIVE HighsFrom(_, _)
HighsFrom(items, i) ==
    IF i > Len(items) THEN 0 ELSE items[i].high + HighsFrom(items, i + 1)

HighTotal(testing_cost_estimate) ==
    IF testing_cost_estimate = NoEstimate THEN 0 ELSE HighsFrom(testing_cost_estimate[1], 1)

\* A formatted price: "$", then digits with commas between them, then at most
\* one "." followed by digits only.
IsPrice(s) ==
    /\ Len(s) > 1 /\ s[1] = "$"
    /\ \A i \in 2..Len(s) : s[i] \in Digits \cup {".", ","}
    /\ \E i \in 2..Len(s) : s[i] \in Digits
    /\ \A i, j \in 2..Len(s) : (s[i] = "." /\ s[j] = ".") => i = j
    /\ \A i, j \in 2..Len(s) : (s[i] = "." /\ s[j] = ",") => j < i

\* The amount a formatted price states
PriceAmount(s) ==
    LET at == {i \in 1..Len(s) : s[i] \in Digits}
        after(i) == Cardinality({j \in at : j > i})
        digit(i) == CHOOSE v \in 0..9 : DigitChars[v + 1] = s[i]
        RECURSIVE Total(_)
        Total(S) == IF S = {} THEN 0
                    ELSE LET i == CHOOSE x \in S : TRUE
                         IN digit(i) * Pow10(after(i)) + Total(S \ {i})
        decimals == IF \E i \in 1..Len(s) : s[i] = "."
                    THEN Cardinality({j \in at : j > CHOOSE i \in 1..Len(s) : s[i] = "."})
                    ELSE 0
    IN Dec(Total(at), decimals)

\* C14: estimateInitialOrderCost returns testingCostTotal = the sum of the high
\* bounds of the testing_cost_estimate items (0 when it is absent),
\* minimumOrderCost = unitCost x 500 with unitCost the amount of the landed-cost
\* string, totalInitialCost = minimumOrderCost + testingCostTotal; $2.91 and a
\* high total of 970 give 1455.00 and 2425.00.
C14_OrderCostArithmetic ==
    orderCall.n = 1 =>
        LET r == orderCall.result IN
        /\ r.testingCostTotal = HighTotal(orderCall.testing_cost_estimate)
        /\ IsPrice(orderCall.landed_cost)
              => SameAmount(r.unitCost, PriceAmount(orderCall.landed_cost))
        /\ r.unitCost.nan => (r.minimumOrderCost.nan /\ r.totalInitialCost.nan)
        /\ ~r.unitCost.nan =>
              /\ SameAmount(r.minimumOrderCost, Dec(r.unitCost.num * 500, r.unitCost.scale))
              /\ SameAmount(r.totalInitialCost,
                            Dec(r.minimumOrderCost.num
                                   + r.testingCostTotal * Pow10(r.minimumOrderCost.scale),
                                r.minimumOrderCost.scale))
        /\ (orderCall.landed_cost = <<"$", "2", ".", "9", "1">> /\ r.testingCostTotal = 970)
              => /\ SameAmount(r.minimumOrderCost, Dec(145500, 2))
                 /\ SameAmount(r.totalInitialCost, Dec(242500, 2))

\* C14 witness: the call with unit cost $2.91 and three tests whose high
\* bounds add up to 970 has returned 1455.00 and 2425.00.
C14_Witness ==
    /\ orderCall.n = 1
    /\ orderCall.landed_cost = <<"$", "2", ".", "9", "1">>
    /\ orderCall.testing_cost_estimate # NoEstimate
    /\ Len(orderCall.testing_cost_estimate[1]) = 3
    /\ orderCall.result.testingCostTotal = 970
    /\ orderCall.result.minimumOrderCost = Dec(145500, 2)
    /\ orderCall.result.totalInitialCost = Dec(242500, 2)

-----------------------------------------------------------------------------
(* Knowledge builders: properties *)

OnDisk(f) == IF f = "compliance" THEN complianceFile ELSE factoryFile

\* this step writes file f at the end of a merge of record r by the function named
MergeWrites(f, r, by) ==
    \/ /\ by = "mergeIntoFiles" /\ f = "compliance"
       /\ run.pc = "writeCompliance" /\ run'.pc # run.pc /\ r = run.compliance
    \/ /\ by = "mergeIntoFiles" /\ f = "factory"
       /\ run.pc = "writeFactory" /\ run'.pc # run.pc /\ r = run.factory
    \/ /\ by = "mergeJson" /\ f = merger.file
       /\ merger.pc = "write" /\ merger'.pc # merger.pc /\ r = merger.newData

IdCount(categories, id) == Cardinality({i \in 1..Len(categories) : categories[i].id = id})

\* C15: a merge of the record that the same function merged into the same file just
\* before leaves the file's parsed content as it was; and any merge leaves exactly as
\* many records with the record's id as there were, or one if there was none, the
\* record itself among them, and no other id gains or loses a record
C15_MergeIdempotent ==
    [][\A f \in Files, r \in Records, by \in {"mergeIntoFiles", "mergeJson"} :
        MergeWrites(f, r, by) =>
            LET before == OnDisk(f).categories
                after == OnDisk(f)'.categories
            IN  /\ (lastMerge[f].record = r /\ lastMerge[f].by = by) => OnDisk(f)' = OnDisk(f)
                /\ OnDisk(f)'.state = "json"
                /\ \E i \in 1..Len(after) : after[i] = r
                /\ IdCount(after, r.id) = (IF IdCount(before, r.id) = 0 THEN 1
                                           ELSE IdCount(before, r.id))
                /\ \A id \in Slugs \ {r.id} : IdCount(after, id) = IdCount(before, id)]_vars

\* C15 witness: the same record has been merged twice in a row into a file that holds
\* other records as well
C15_Witness ==
    \E f \in Files :
        /\ lastMerge[f].repeated
        /\ Len(OnDisk(f).categories) >= 2
        /\ IdCount(OnDisk(f).categories, lastMerge[f].record.id) = 1

UniqueIds(categories) ==
    \A i, j \in 1..Len(categories) : categories[i].id = categories[j].id => i = j

\* C16: each Knowledge Store file holds at most one record per id, and every record a
\* builder has written has a non-empty id
C16_UniqueNonEmptyIds ==
    \A f \in Files :
        /\ UniqueIds(OnDisk(f).categories)
        /\ lastMerge[f].by # Absent => lastMerge[f].record.id # <<>>

Stages == <<"parse-input", "research", "verify", "build-records", "merge", "commit">>
StageRank(stage) == CHOOSE i \in 1..Len(Stages) : Stages[i] = stage

\* C17: the stages a run enters come in the order parse-input, research, verify,
\* build-records, merge, commit: each at most once, none after a later one
C17_LinearStages ==
    \A i, j \in 1..Len(run.stages) :
        i < j => StageRank(run.stages[i]) < StageRank(run.stages[j])

\* C18: once the research or the verify call of a run has failed, the run has ended
\* with exit code 1 and both files are as they were when it started
C18_NoWriteOnModelFailure ==
    [][(run' # run /\ run'.rejected \in {"research", "verify"}) =>
            /\ run'.pc = "exited" /\ run'.exit = 1
            /\ complianceFile' = run'.atStart[1]
            /\ factoryFile' = run'.atStart[2]]_vars

\* C18 witness: a run whose verify call failed has exited with code 1 and the files
\* it would have created are still missing
C18_Witness ==
    /\ run.pc = "exited" /\ run.exit = 1
    /\ run.rejected = "verify"
    /\ run.atStart = <<Missing, Missing>>
    /\ complianceFile = Missing /\ factoryFile = Missing

Holds(file, record) == \E i \in 1..Len(file.categories) : file.categories[i] = record

\* C19: a run that fails in the merge stage because a file is not valid JSON has
\* written neither file, and neither file has gained the category's record
C19_InvalidJsonNoWrite ==
    [][(run' # run /\ run'.threwIn = "merge") =>
            /\ run'.wrote = {}
            /\ Holds(complianceFile', run'.compliance) = Holds(run'.atStart[1], run'.compliance)
            /\ Holds(factoryFile', run'.factory) = Holds(run'.atStart[2], run'.factory)]_vars

-----------------------------------------------------------------------------
(* Reinforcement tool and worker pools: properties *)

Selected == {tool.topCategories[i].category_id : i \in 1..Len(tool.topCategories)}
Of(results, c) == SelectSeq(results, LAMBDA r : r.category_id = c)
RetryLines(c) == SelectSeq(tool.log, LAMBDA l : l.line = "Retry attempt" /\ l.category_id = c)
Logged(line, c) == \E i \in 1..Len(tool.log) : tool.log[i].line = line /\ tool.log[i].category_id = c

\* some attempt at category c, in the first pass or in a retry, has succeeded
Succeeded(c) ==
    \E r \in Range(pool.results) \cup Range(tool.retryResults) : r.category_id = c /\ r.success

\* C21: a category is retried only after it failed the first pass, at most RetryMax
\* times, each retry after a longer wait than the one before, and never after a retry
\* of it succeeded; 'All retries failed' is logged for it only if none of its attempts
\* succeeded; and in the final summary it is counted exactly once across the successful
\* and the failed totals, as failed only if none of its attempts succeeded, and the
\* exit code is non-zero only if some category never succeeded
C21_RetriesAndSummary ==
    /\ \A c \in Selected :
        LET retries == Of(tool.retryResults, c)
            waits == RetryLines(c)
        IN  /\ Len(retries) <= RetryMax
            /\ Len(retries) > 0 => \E r \in Range(Of(pool.results, c)) : ~r.success
            /\ \A i \in 1..(Len(retries) - 1) : ~retries[i].success
            /\ \A i \in 1..(Len(waits) - 1) : waits[i].waited < waits[i + 1].waited
            /\ Logged("All retries failed", c) => ~Succeeded(c)
            /\ tool.pc = "exited" =>
                /\ Len(Of(tool.successful, c)) + Len(Of(tool.failed, c)) = 1
                /\ Len(Of(tool.failed, c)) > 0 => ~Succeeded(c)
    /\ (tool.pc = "exited" /\ tool.exit # 0) => \E c \in Selected : ~Succeeded(c)

\* C22: a request whose usage event could not be appended is answered 200 with the
\* analysis, and the log is as it was when the request was sent; a valid
\* /api/limit-events payload that got as far as the LimitEvent store is answered 200
\* with ok: true whether the store was unavailable, the create call threw, or the row
\* was created
C22_BestEffortLogging ==
    /\ \A c \in Callers :
        (req[c].pc = "done" /\ req[c].appendFailed) =>
            /\ req[c].resp.status = 200 /\ req[c].resp.ok
            /\ req[c].resp.analysis.product_name # <<>>
            /\ req[c].resp.analysis.initial_order_cost # None
            /\ Cardinality(usageLog) = req[c].loggedBefore
    /\ (Len(outbox) > 0 /\ outbox[1].pc = "answered") =>
            /\ PayloadError(outbox[1]) = Absent =>
                    \/ outbox[1].store \in {"unavailable", "create throws", "created"}
                    \/ outbox[1].resp.error = "server_error"
            /\ outbox[1].store # Absent =>
                    /\ PayloadError(outbox[1]) = Absent
                    /\ outbox[1].resp.status = 200 /\ outbox[1].resp.ok

\* C22 witness: the usage log is empty because the append of the first request's event
\* failed, and the request has its 200 response with a resolved category
C22_Witness ==
    /\ req["api"].pc = "done" /\ req["api"].appendFailed
    /\ req["api"].resp.status = 200
    /\ req["api"].resp.analysis.compliance_hints # Absent
    /\ usageLog = {}

\* the lines of the log the last run read that are valid events, by position
ValidRead ==
    {i \in 1..Len(popularity.read) :
        /\ popularity.read[i].json
        /\ popularity.read[i].timestamp # <<>> /\ popularity.read[i].raw_input # ""}
EventsOf(id) == {i \in ValidRead : popularity.read[i].category_id = id}
Day(timestamp) == DigitsValue(timestamp)

BothBeforeGate(c, d) ==
    /\ c # d
    /\ req[c].pc = "sent" /\ req[d].pc = "sent"
    /\ KeyOf(c) = KeyOf(d)

PastGate(r) == r.pc \in {"gated", "parsed", "done"}

\* C24 (as stated): whenever two requests for one identifier are in flight in one
\* process, the two incrementUsage calls they are about to make can be run so that
\* the stored count ends smaller than the number of calls made, or so that both
\* calls return the same count
C24_IncrementsCanBeLost ==
    \A c, d \in Callers :
        BothBeforeGate(c, d) =>
            LET k == KeyOf(c)
                first == incrementUsage(usage, env, Today, k, req[c].session # NoSession)
                second == incrementUsage(first.usage, env, Today, k,
                                         req[d].session # NoSession)
            IN  \/ CountOf(second.usage, k) < CountOf(usage, k) + 2
                \/ first.count = second.count

\* C24 (amended): the incrementUsage calls of one process do not interleave; with the
\* bypass flag unset, the stored count of an identifier is the number of calls made
\* for it that day, and two requests of one identifier that are past the gate at the
\* same time hold different counts
C24_NoLostUpdate ==
    /\ \A k \in Identifiers : CountOf(usage, k) = calls[k]
    /\ \A c, d \in Callers :
        (c # d /\ PastGate(req[c]) /\ PastGate(req[d]) /\ KeyOf(c) = KeyOf(d))
            => req[c].count # req[d].count

\* C24 witness: two requests of one identifier were in flight together and both are
\* past the gate, holding the counts 1 and 2, with 2 stored
C24_Witness ==
    /\ PastGate(req["api"]) /\ PastGate(req["batch"])
    /\ req["api"].usedBefore = 0 /\ req["batch"].usedBefore = 0
    /\ KeyOf("api") = KeyOf("batch")
    /\ {req["api"].count, req["batch"].count} = {1, 2}
    /\ CountOf(usage, KeyOf("api")) = 2

\* two workers hold different categories whose child processes are running
BothInHand(v, w) ==
    /\ v # w
    /\ worker[v].pc = "exec" /\ worker[w].pc = "exec"
    /\ slugify(worker[v].category) # slugify(worker[w].category)

BulkInFlight == counters.categories - Len(queue) - counters.processedCount

\* items the first pass of the reinforcement tool has started and has no result for
PoolInFlight == Len(tool.topCategories) - Len(pool.queue) - Len(pool.results)

\* C26: at every moment at most 3 categories are being processed by the bulk builder
\* and at most 2 by the first pass of the reinforcement tool, however many categories
\* are queued and in whatever order the tasks complete
C26_PoolsBounded ==
    /\ BulkInFlight <= 3
    /\ tool.pc = "pool" => PoolInFlight <= 2
    /\ Len(pool.activePromises) <= 2

\* C26 witness: of three selected items one has its result and the other two are in
\* progress, the third having waited in the queue for the first result
C26_Witness ==
    /\ tool.pc = "pool"
    /\ Len(tool.topCategories) = 3
    /\ Len(pool.results) = 1 /\ PoolInFlight = 2 /\ Len(pool.activePromises) = 2

\* the categories the bulk builder was started on
BulkInput == SubSeq(CategoriesTxt, 1, counters.categories)

\* where a category of the input is: places in the queue and workers holding it
Places(c) ==
    Cardinality({i \in 1..Len(queue) : queue[i] = c})
        + Cardinality({w \in Workers : worker[w].pc \in {"exec", "append"}
                                        /\ worker[w].category = c})

\* steps the bulk builder can still take: an upper bound that every step lowers
WorkerSteps(w) ==
    CASE worker[w].pc = "exec" -> (MAX_RETRIES - worker[w].attempt) + 3
      [] worker[w].pc = "append" -> 2
      [] worker[w].pc = "sleep" -> 1
      [] OTHER -> 0

RECURSIVE Sum(_, _)
Sum(f, S) == IF S = {} THEN 0 ELSE LET x == CHOOSE x \in S : TRUE IN f[x] + Sum(f, S \ {x})

BulkSteps ==
    Len(queue) * (MAX_RETRIES + 3) + Sum([w \in Workers |-> WorkerSteps(w)], Workers)
        + (IF counters.main = "running" THEN 1 ELSE 0)

\* steps the first pass of the reinforcement tool can still take
PoolSteps ==
    2 * Len(pool.queue) + Len(pool.activePromises) + (IF tool.pc = "pool" THEN 1 ELSE 0)

GeneratedAndDone ==
    {c \in Range(BulkInput) : Places(c) = 0 /\ attempts[c].generated}

IdsIn(file) == {file.categories[i].id : i \in 1..Len(file.categories)}

\* the results of reinforceCategory calls, of the first pass and of the retries
Reinforcements(p, t) == p.results \o t.retryResults

\* C29: when the reinforcement tool has successfully reinforced a popularity item with
\* category_id X, the record written into both Knowledge Store files is the one with
\* id X, replaced in place: each file holds the same set of ids as before
C29_ReinforceInPlace ==
    [][LET before == Reinforcements(pool, tool)
           after == Reinforcements(pool', tool')
       IN  (Len(after) = Len(before) + 1 /\ after[Len(after)].success) =>
                /\ lastMerge'["compliance"].record.id = after[Len(after)].category_id
                /\ lastMerge'["factory"].record.id = after[Len(after)].category_id
                /\ IdsIn(complianceFile') = IdsIn(complianceFile)
                /\ IdsIn(factoryFile') = IdsIn(factoryFile)]_vars

\* the count the store holds for identifier k today
CountToday(m, k) ==
    IF MapHas(m, k) /\ MapGet(m, k).date = Today THEN MapGet(m, k).count ELSE 0

\* C30 (as stated): with the bypass flag unset, every limiter call that reports a count
\* changes the store
C30_NoReadWithoutConsuming ==
    [][(ret' # ret /\ env # "true") => usage' # usage]_vars

\* C30 (amended): with the bypass flag unset, an incrementUsage call reports the count
\* it has stored, one more than the count of the day before the call, while a getUsage
\* call reports the count of the day and leaves the store as it is
C30_OnlyIncrementConsumes ==
    [][(ret' # ret /\ env # "true") =>
            IF ret'.op = "incrementUsage"
            THEN /\ usage' # usage
                 /\ ret'.count = CountToday(usage, ret'.id) + 1
                 /\ CountToday(usage', ret'.id) = ret'.count
            ELSE /\ ret'.op = "getUsage"
                 /\ usage' = usage
                 /\ ret'.count = CountToday(usage, ret'.id)]_vars

\* C30 witness: getUsage has reported a count of 2 that the store still holds
C30_Witness ==
    /\ env # "true"
    /\ ret.op = "getUsage" /\ ret.count = 2
    /\ CountToday(usage, ret.id) = 2 /\ calls[ret.id] = 2

TypeOK ==
    /\ \A e \in usage : e.id \in Identifiers /\ e.count \in 1..(MaxCount + 2)
    /\ env \in EnvValues
    /\ clock \in 1..MaxDay

====
